---- MODULE Spec2Model ----
(***************************************************************************)
(* A model of kraftkit's compose support: the project validator            *)
(* (compose/project.go, Project.Validate) and the lifecycle commands       *)
(* `kraft compose up`, `down` and `stop`.                                  *)
(*                                                                         *)
(* Strings are modelled by what the code does with them:                   *)
(*   - names are sequences of tokens, so that prefixing is concatenation;  *)
(*   - an address string is a record [form, val]: the same IPv4 address    *)
(*     can be spelled in dotted form ("10.0.0.2") or as an IPv4-mapped     *)
(*     IPv6 address ("::ffff:10.0.0.2"); net.ParseIP accepts both and      *)
(*     IP.String() always prints the dotted form;                          *)
(*   - a CIDR string is a record [form, ip, bits].                         *)
(***************************************************************************)
EXTENDS Integers, Sequences, FiniteSets, TLC

(***************************************************************************)
(* Bounds of the model.                                                    *)
(***************************************************************************)
\* width of an address in bits (IPv4 has 32; TLC integers are 32-bit signed)
AddrBits == 8
\* the largest subnet of the inputs has 2^MaxHostBits addresses
MaxHostBits == 2
\* the largest number of services of an input project
MaxServices == 3
\* how often Validate is run on the same project object
MaxValidateCalls == 2
\* the largest number of services of a project the commands run on
MaxOrchServices == 2
\* the largest number of IPAM blocks of a network
MaxBlocks == 3
\* the longest platform string of a service, in tokens
MaxPlatformTokens == 4
\* how often in succession the down command is run on the same project
MaxDownRuns == 2

AddrSpace == 2^AddrBits

\* The inputs take their subnets from the block at the top of the address
\* space, so that incrementing past the last address wraps around.
BlockSize == 2^MaxHostBits
BlockBase == AddrSpace - BlockSize
BlockAddrs == BlockBase .. (AddrSpace - 1)
\* an address outside every subnet of the inputs ("0.0.0.0")
OutsideAddr == 0

(***************************************************************************)
(* Address and CIDR strings, net.ParseIP, IP.String, net.ParseCIDR,        *)
(* IPNet.Contains, bridge.IncreaseIP.                                      *)
(***************************************************************************)
EmptyAddr == [form |-> "empty", val |-> 0]
BadAddr == [form |-> "bad", val |-> 0]
Dotted(v) == [form |-> "dotted", val |-> v]
Mapped(v) == [form |-> "mapped", val |-> v]

NilIP == 0 - 1

\* net.ParseIP: nil unless the text is an address; both spellings parse to
\* the same IP.
ParseIP(s) == IF s.form \in {"dotted", "mapped"} THEN s.val ELSE NilIP

\* IP.String(): an IPv4 address (4-byte or IPv4-mapped) prints dotted.
IPString(ip) == Dotted(ip)

EmptyCidr == [form |-> "empty", ip |-> 0, bits |-> 0]
\* an address without "/<bits>": strings.Split yields one part
NoSlashCidr == [form |-> "noslash", ip |-> 0, bits |-> 0]
\* "addr/junk": two parts, but net.ParseCIDR fails
BadCidr == [form |-> "bad", ip |-> 0, bits |-> 0]
Cidr(ip, bits) == [form |-> "cidr", ip |-> ip, bits |-> bits]

\* len(strings.Split(subnet, "/"))
SplitSlashLen(c) == IF c.form \in {"cidr", "bad"} THEN 2 ELSE 1

NetSize(bits) == 2^(AddrBits - bits)

\* net.ParseCIDR: the address as written (host bits kept) and the network
\* (address masked, prefix length).
ParseCIDR(c) ==
    IF c.form = "cidr"
    THEN [err |-> FALSE, ip |-> c.ip,
          net |-> [IP |-> c.ip - (c.ip % NetSize(c.bits)), bits |-> c.bits]]
    ELSE [err |-> TRUE, ip |-> NilIP, net |-> [IP |-> NilIP, bits |-> 0]]

\* IPNet.Contains
Contains(net, ip) ==
    (ip \div NetSize(net.bits)) = (net.IP \div NetSize(net.bits))

\* bridge.IncreaseIP: the next address, as an increment of the address bytes
IncreaseIP(ip) == (ip + 1) % AddrSpace

(***************************************************************************)
(* Project.Validate, pass by pass.                                         *)
(***************************************************************************)
NoErr == ""
ErrNoImageNorBuild == "service has neither an image nor a build context"
ErrDetect == "host platform or architecture detection failed"
ErrNoDriver == "network has no driver specified"
ErrNoIPAM == "network has no IPAM config specified"
ErrNoSubnet == "network has no subnet specified"
ErrInvalidSubnet == "network has an invalid subnet specified"
ErrParseSubnet == "failed to parse network subnet"
ErrParseGateway == "failed to parse network gateway"
ErrGatewayOutside == "network gateway is not within the subnet"
ErrUnknownNetwork == "service references non-existent network"
ErrInvalidAddress == "service has an invalid ipv4_address specified"
ErrAddressInUse == "service has an ipv4_address that is already in use"
ErrExhausted == "not enough free IP addresses in network"

\* an attachment: a nil *ServiceNetworkConfig, or one with its Ipv4Address
NilAttachment == [isNil |-> TRUE, Ipv4Address |-> EmptyAddr]
Attachment(addr) == [isNil |-> FALSE, Ipv4Address |-> addr]

\* first loop: a service with neither an image nor a build context
MissingArtifactSource(services) ==
    \E i \in 1..Len(services) : services[i].Image = <<>> /\ ~services[i].Build

\* parts[len(parts)-1] of strings.Split(project.WorkingDir, "/")
RECURSIVE LastSegment(_)
LastSegment(s) ==
    IF s = <<>> THEN <<>>
    ELSE IF s[Len(s)] = "/" THEN <<>>
    ELSE Append(LastSegment(SubSeq(s, 1, Len(s) - 1)), s[Len(s)])

DefaultedName(p) == IF p.Name = <<>> THEN LastSegment(p.WorkingDir) ELSE p.Name

\* fmt.Sprint(project.Name, "-", service.Name)
PrefixedName(pname, name) == pname \o <<"-">> \o name

\* a rewrite that prefixes the image of every service
RewriteServiceAndImage(pname, s) ==
    [s EXCEPT !.Image = PrefixedName(pname, s.Name), !.Name = PrefixedName(pname, s.Name)]

\* second loop: fill in a missing image, prepend the project name to the name
RewriteService(pname, s) ==
    [s EXCEPT !.Image = IF s.Image = <<>> THEN PrefixedName(pname, s.Name) ELSE s.Image,
              !.Name = PrefixedName(pname, s.Name)]

\* third loop: a missing platform becomes "<host platform>/<host arch>"
NeedsDetect(services) == \E i \in 1..Len(services) : services[i].Platform = <<>>

FillPlatform(s, det) ==
    IF s.Platform = <<>> THEN [s EXCEPT !.Platform = <<det.plat, "/", det.arch>>] ELSE s

\* fourth loop: a network name starting with '_' gets the project name
QualifyNetwork(pname, n) ==
    IF n.Name[1] = "_" THEN [n EXCEPT !.Name = pname \o n.Name] ELSE n

\* a delete that leaves the map as it is
RemoveDefaultKeeps(m) == m

\* delete(project.Networks, "default")
RemoveDefault(m) == [k \in DOMAIN m \ {"default"} |-> m[k]]

EffectiveDriver(n) == IF n.Driver = "" THEN n.IpamDriver ELSE n.Driver

\* "Join all the IPAM configs together"
RECURSIVE FoldFrom(_, _, _)
FoldFrom(acc, config, i) ==
    IF i > Len(config) THEN acc
    ELSE FoldFrom([Subnet |-> IF config[i].Subnet.form # "empty"
                              THEN config[i].Subnet ELSE acc.Subnet,
                   Gateway |-> IF config[i].Gateway.form # "empty"
                               THEN config[i].Gateway ELSE acc.Gateway],
                  config, i + 1)

\* a fold in which the last block replaces the earlier ones as a whole
FoldIpamLastBlockWins(config) == config[Len(config)]

FoldIpam(config) == FoldFrom(config[1], config, 2)

\* the gateway check: "" when the gateway is absent or parses into the subnet
GatewayError(gateway, net) ==
    IF gateway.form = "empty" THEN NoErr
    ELSE IF ParseIP(gateway) = NilIP THEN ErrParseGateway
    ELSE IF ~Contains(net, ParseIP(gateway)) THEN ErrGatewayOutside
    ELSE NoErr

\* a default that takes the masked address of the subnet
EffectiveGatewayMasked(gateway, cidr) ==
    IF gateway.form = "empty" THEN IPString(cidr.net.IP) ELSE gateway

\* ipamConfig.Gateway after the gateway check
EffectiveGateway(gateway, cidr) ==
    IF gateway.form = "empty" THEN IPString(cidr.ip) ELSE gateway

\* a seeding that forgets the base address
SeedAddrsGatewayOnly(gateway, net) == {gateway}

\* usedAddrs[i] as seeded: the gateway string and the subnet's base address
SeedAddrs(gateway, net) == {gateway, IPString(net.IP)}

\* one iteration of the network loop: the error, the network as stored back
\* and the seeded usedAddrs entry
NetworkCheck(n) ==
    LET fail(e) == [err |-> e, network |-> n, used |-> {}]
        driver == EffectiveDriver(n)
    IN  IF driver = "" THEN fail(ErrNoDriver)
        ELSE IF Len(n.Config) = 0 THEN fail(ErrNoIPAM)
        ELSE LET ipam == FoldIpam(n.Config)
                 cidr == ParseCIDR(ipam.Subnet)
                 gateway == EffectiveGateway(ipam.Gateway, cidr)
             IN  IF ipam.Subnet.form = "empty" THEN fail(ErrNoSubnet)
                 ELSE IF SplitSlashLen(ipam.Subnet) # 2 THEN fail(ErrInvalidSubnet)
                 ELSE IF cidr.err THEN fail(ErrParseSubnet)
                 ELSE IF GatewayError(ipam.Gateway, cidr.net) # NoErr
                      THEN fail(GatewayError(ipam.Gateway, cidr.net))
                 ELSE [err |-> NoErr,
                       network |-> [n EXCEPT !.Driver = driver,
                                             !.Config[1] = [Subnet |-> ipam.Subnet,
                                                            Gateway |-> gateway]],
                       used |-> SeedAddrs(gateway, cidr.net)]

\* the pinned-address check of one attachment of one service
AttachmentError(networks, used, name, att) ==
    IF name \notin DOMAIN networks THEN ErrUnknownNetwork
    ELSE IF att.isNil \/ att.Ipv4Address.form = "empty" THEN NoErr
    ELSE IF ParseIP(att.Ipv4Address) = NilIP THEN ErrInvalidAddress
    ELSE IF IPString(ParseIP(att.Ipv4Address)) \in used[name] THEN ErrAddressInUse
    ELSE NoErr

\* usedAddrs after the pins of `atts` (one service's attachments) are claimed
ClaimAll(used, atts) ==
    [name \in DOMAIN used |->
        IF name \in DOMAIN atts /\ atts[name].Ipv4Address.form # "empty"
        THEN used[name] \cup {IPString(ParseIP(atts[name].Ipv4Address))}
        ELSE used[name]]

\* a nil attachment is replaced by an empty ServiceNetworkConfig
Materialise(atts, names) ==
    [name \in DOMAIN atts |->
        IF name \in names THEN Attachment(atts[name].Ipv4Address) ELSE atts[name]]

\* "Check the services networks": services in order, the attachments of one
\* service in map order. A failure stops at the first failing attachment
\* met, after any subset of the service's other attachments.
RECURSIVE ClaimPins(_, _, _, _)
ClaimPins(services, networks, used, i) ==
    IF i > Len(services)
    THEN [fails |-> {}, services |-> services, used |-> used]
    ELSE LET atts == RemoveDefault(services[i].Networks)
             bad == {name \in DOMAIN atts :
                        AttachmentError(networks, used, name, atts[name]) # NoErr}
             good == DOMAIN atts \ bad
         IN  IF bad # {}
             THEN [fails |->
                     {[err |-> AttachmentError(networks, used, name, atts[name]),
                       services |-> [services EXCEPT
                                        ![i].Networks = Materialise(atts, done)]] :
                        name \in bad, done \in SUBSET good},
                   services |-> services, used |-> used]
             ELSE ClaimPins([services EXCEPT
                                ![i].Networks = Materialise(atts, DOMAIN atts)],
                            networks, ClaimAll(used, atts), i + 1)

\* the planner's walk: from ip, skip claimed addresses while inside the subnet
RECURSIVE Probe(_, _, _)
Probe(net, claimed, ip) ==
    IF Contains(net, ip) /\ IPString(ip) \in claimed
    THEN Probe(net, claimed, IncreaseIP(ip))
    ELSE ip

\* the address the planner finds for a network, NilIP on exhaustion
Allocate(net, claimed) ==
    LET ip == Probe(net, claimed, net.IP)
    IN  IF Contains(net, ip) THEN ip ELSE NilIP

\* the network of the folded subnet stored in Ipam.Config[0]
StoredNet(network) == ParseCIDR(network.Config[1].Subnet).net

NeedsAddress(att) == ~att.isNil /\ att.Ipv4Address.form = "empty"

\* "Run through the services again and assign an IP address to each"
RECURSIVE AssignAddresses(_, _, _, _)
AssignAddresses(services, networks, used, i) ==
    IF i > Len(services)
    THEN [fails |-> {}, services |-> services, used |-> used]
    ELSE LET atts == services[i].Networks
             want == {name \in DOMAIN atts : NeedsAddress(atts[name])}
             got == [name \in want |-> Allocate(StoredNet(networks[name]), used[name])]
             bad == {name \in want : got[name] = NilIP}
             assign(names) ==
                 [name \in DOMAIN atts |->
                     IF name \in names THEN Attachment(IPString(got[name]))
                     ELSE atts[name]]
         IN  IF bad # {}
             THEN [fails |->
                     {[err |-> ErrExhausted,
                       services |-> [services EXCEPT ![i].Networks = assign(done)]] :
                        name \in bad, done \in SUBSET (want \ bad)},
                   services |-> services, used |-> used]
             ELSE AssignAddresses(
                      [services EXCEPT ![i].Networks = assign(want)], networks,
                      [name \in DOMAIN used |->
                          IF name \in want THEN used[name] \cup {IPString(got[name])}
                          ELSE used[name]],
                      i + 1)

\* Every way Validate can end on project p when host detection answers det:
\* the error returned ("" for nil) and the project as it is left.
ValidateOutcomes(p, det) ==
    IF MissingArtifactSource(p.Services)
    THEN {[err |-> ErrNoImageNorBuild, project |-> p]}
    ELSE
    LET pname == DefaultedName(p)
        p3 == [p EXCEPT !.Name = pname,
                        !.Services = [i \in DOMAIN p.Services |->
                                         RewriteService(pname, p.Services[i])]]
    IN  IF NeedsDetect(p3.Services) /\ det.err
        THEN {[err |-> ErrDetect, project |-> p3]}
        ELSE
        LET p4 == [p3 EXCEPT !.Services = [i \in DOMAIN p3.Services |->
                                              FillPlatform(p3.Services[i], det)]]
            nets == RemoveDefault([k \in DOMAIN p4.Networks |->
                                      QualifyNetwork(pname, p4.Networks[k])])
            p5 == [p4 EXCEPT !.Networks = nets]
            chk == [k \in DOMAIN nets |-> NetworkCheck(nets[k])]
            badNets == {k \in DOMAIN nets : chk[k].err # NoErr}
            stored(ks) == [k \in DOMAIN nets |->
                              IF k \in ks THEN chk[k].network ELSE nets[k]]
        IN  IF badNets # {}
            THEN {[err |-> chk[k].err, project |-> [p5 EXCEPT !.Networks = stored(done)]] :
                     k \in badNets, done \in SUBSET (DOMAIN nets \ badNets)}
            ELSE
            LET p6 == [p5 EXCEPT !.Networks = stored(DOMAIN nets)]
                seeded == [k \in DOMAIN nets |-> chk[k].used]
                pins == ClaimPins(p6.Services, p6.Networks, seeded, 1)
            IN  IF pins.fails # {}
                THEN {[err |-> f.err, project |-> [p6 EXCEPT !.Services = f.services]] :
                         f \in pins.fails}
                ELSE
                LET plan == AssignAddresses(pins.services, p6.Networks, pins.used, 1)
                IN  IF plan.fails # {}
                    THEN {[err |-> f.err,
                           project |-> [p6 EXCEPT !.Services = f.services]] :
                             f \in plan.fails}
                    ELSE {[err |-> NoErr,
                           project |-> [p6 EXCEPT !.Services = plan.services]]}

(***************************************************************************)
(* State.                                                                  *)
(***************************************************************************)
VARIABLES
    composeFile,  \* the project as the loader yields it (the compose file)
    project,      \* a loaded project object, mutated in place by Validate
    verr,         \* what the last Validate on `project` returned
    nvalidate,    \* how many times Validate ran on `project`
    machines,     \* the machine control plane: a set of [name, state]
    hostNetworks, \* the networks that exist: a set of [driver, name]
    inv,          \* the running commands (up, down): id -> its local state
    calls,        \* every call made to an external collaborator, in order
    logs          \* the error log: [inv, name] of the services that failed to run

validateVars == <<composeFile, project, verr, nvalidate>>
envVars == <<machines, hostNetworks>>
orchVars == <<inv, calls, logs>>
vars == <<composeFile, project, verr, nvalidate, machines, hostNetworks, inv, calls, logs>>

NotValidated == "not validated"

\* what mplatform.Detect / ukarch.HostArchitecture can answer
Detections ==
    {[err |-> FALSE, plat |-> "qemu", arch |-> "x86_64"],
     [err |-> TRUE, plat |-> "", arch |-> ""]}

(***************************************************************************)
(* Input projects of the validator.                                        *)
(***************************************************************************)
NameTable == <<"s1", "s2", "s3", "s4", "s5", "s6">>

Service(i, atts) ==
    [Name |-> <<NameTable[i]>>, Image |-> <<"img">>, Build |-> FALSE,
     Platform |-> <<"qemu", "/", "x86_64">>, Networks |-> atts]

Network(name, driver, config) ==
    [Name |-> <<name>>, Driver |-> driver, IpamDriver |-> "", Config |-> config]

Block(subnet, gateway) == [Subnet |-> subnet, Gateway |-> gateway]

ProjectOf(services, networks) ==
    [Name |-> <<"proj">>, WorkingDir |-> <<"home", "/", "proj">>,
     Services |-> services, Networks |-> networks]

NoAttachments == [k \in {} |-> NilAttachment]
OneAttachment(name, att) == [k \in {name} |-> att]

\* every CIDR of the block, with and without host bits set
Cidrs == {Cidr(ip, AddrBits - h) : ip \in BlockAddrs, h \in 0..MaxHostBits}
CanonicalCidrs == {c \in Cidrs : ParseCIDR(c).net.IP = c.ip}

BaseOf(c) == ParseCIDR(c).net.IP

\* gateways: absent, unparseable, and the base, its successor and an outside
\* address in both spellings
Gateways(c) ==
    {EmptyAddr, BadAddr}
    \cup {Dotted(v) : v \in {BaseOf(c), IncreaseIP(BaseOf(c)), OutsideAddr}}
    \cup {Mapped(v) : v \in {BaseOf(c), IncreaseIP(BaseOf(c)), OutsideAddr}}

Blocks ==
    UNION {{Block(c, g) : g \in Gateways(c)} : c \in Cidrs}
    \cup {Block(c, EmptyAddr) : c \in {EmptyCidr, NoSlashCidr, BadCidr}}

\* sequences of at most n elements of S
RECURSIVE SeqsUpTo(_, _)
SeqsUpTo(S, n) ==
    IF n = 0 THEN {<<>>}
    ELSE LET shorter == SeqsUpTo(S, n - 1)
         IN  shorter \cup {Append(q, x) : q \in {r \in shorter : Len(r) = n - 1}, x \in S}

ServicesOf(choices) == [i \in DOMAIN choices |-> Service(i, choices[i])]

\* one network, any block; services attach without a pin or not at all
UnpinnedChoices ==
    {NoAttachments, OneAttachment("n1", NilAttachment),
     OneAttachment("n1", Attachment(EmptyAddr))}

PlannerInput(b, ch) ==
    ProjectOf(ServicesOf(ch), OneAttachment("n1", Network("n1", "bridge", <<b>>)))

\* one valid network; services pin addresses or leave the choice to the planner
PinChoices(c) ==
    {OneAttachment("n1", a) :
        a \in {NilAttachment, Attachment(BadAddr), Attachment(Dotted(OutsideAddr)),
               Attachment(Dotted(BaseOf(c))),
               Attachment(Dotted(IncreaseIP(BaseOf(c)))),
               Attachment(Mapped(IncreaseIP(BaseOf(c)))),
               Attachment(Dotted(IncreaseIP(IncreaseIP(BaseOf(c)))))}}

PinGateways(c) ==
    {EmptyAddr, Dotted(IncreaseIP(BaseOf(c))), Mapped(IncreaseIP(BaseOf(c)))}

PinnedInput(c, g, ch) ==
    ProjectOf(ServicesOf(ch),
              OneAttachment("n1", Network("n1", "bridge", <<Block(c, g)>>)))

\* two networks over the same block (and sometimes a "default" network that
\* has neither driver nor IPAM config); two services attached to both
WholeBlock == Cidr(BlockBase, AddrBits - MaxHostBits)

TwoNetworks(withDefault, gateway2) ==
    [k \in {"n1", "n2"} \cup (IF withDefault THEN {"default"} ELSE {}) |->
        IF k = "n1" THEN Network("n1", "bridge", <<Block(WholeBlock, EmptyAddr)>>)
        ELSE IF k = "n2" THEN Network("n2", "bridge", <<Block(WholeBlock, gateway2)>>)
        ELSE Network("default", "", <<>>)]

TwoNetChoices ==
    {NilAttachment, Attachment(Dotted(BlockBase + 1)), Attachment(Dotted(AddrSpace - 1))}

TwoNetAttachments ==
    UNION {[D -> TwoNetChoices] : D \in SUBSET {"n1", "n2"}}

TwoNetworkInput(a1, a2, d, g) ==
    ProjectOf(<<Service(1, a1), Service(2, a2)>>, TwoNetworks(d, g))

\* the project a validator run starts from
IsValidateInput(p) ==
    \/ \E b \in Blocks, ch \in SeqsUpTo(UnpinnedChoices, MaxServices) :
          p = PlannerInput(b, ch)
    \/ \E c \in CanonicalCidrs :
          \E g \in PinGateways(c), ch \in SeqsUpTo(PinChoices(c), MaxServices) :
             p = PinnedInput(c, g, ch)
    \/ \E a1 \in TwoNetAttachments, a2 \in TwoNetAttachments, d \in BOOLEAN,
          g \in {EmptyAddr, Dotted(AddrSpace - 1)} :
          p = TwoNetworkInput(a1, a2, d, g)

(***************************************************************************)
(* The validator on its own: a project is loaded and validated, possibly   *)
(* again after a success.                                                  *)
(***************************************************************************)
InitValidate ==
    /\ IsValidateInput(composeFile)
    /\ project = composeFile
    /\ verr = NotValidated
    /\ nvalidate = 0
    /\ machines = {}
    /\ hostNetworks = {}
    /\ inv = <<>>
    /\ calls = <<>>
    /\ logs = {}

\* project.Validate(ctx)
Validate ==
    /\ nvalidate < MaxValidateCalls
    /\ verr \in {NotValidated, NoErr}
    /\ \E det \in Detections :
         \E out \in ValidateOutcomes(project, det) :
            /\ project' = out.project
            /\ verr' = out.err
    /\ nvalidate' = nvalidate + 1
    /\ UNCHANGED <<composeFile, envVars, orchVars>>

NextValidate == Validate

SpecValidate == InitValidate /\ [][NextValidate]_vars

(***************************************************************************)
(* The validator's normalisation passes: projects that vary the artifact   *)
(* source, the platform and the project name; networks of several IPAM     *)
(* blocks; a network named "default" and attachments to it.                *)
(***************************************************************************)
\* image, build context and platform of a service as declared
ArtifactChoices ==
    {[Image |-> im, Build |-> b, Platform |-> pl] :
        im \in {<<>>, <<"img">>}, b \in BOOLEAN,
        pl \in {<<>>, <<"qemu", "/", "x86_64">>}}

ArtifactInput(pname, ch) ==
    [ProjectOf([i \in DOMAIN ch |->
                  [Service(i, NoAttachments) EXCEPT !.Image = ch[i].Image,
                                                    !.Build = ch[i].Build,
                                                    !.Platform = ch[i].Platform]],
               NoAttachments)
        EXCEPT !.Name = pname]

\* the IPAM blocks of the folding inputs: two subnets (one written with host
\* bits set), two gateways, each possibly missing
FoldSubnets == {EmptyCidr, WholeBlock, Cidr(BlockBase + 1, AddrBits - MaxHostBits)}
FoldGateways == {EmptyAddr, Dotted(BlockBase + 1), Dotted(AddrSpace - 1)}
FoldBlocks == {Block(c, g) : c \in FoldSubnets, g \in FoldGateways}

NonEmptySeqs(S, n) == SeqsUpTo(S, n) \ {<<>>}

FoldInput(config) ==
    ProjectOf(<<Service(1, OneAttachment("n1", NilAttachment))>>,
              OneAttachment("n1", Network("n1", "bridge", config)))

\* what a network named "default" may look like: absent, or declared
\* without a driver, without IPAM blocks, with a subnet that does not
\* parse, with no subnet, or valid
DefaultNetworks ==
    {NoAttachments} \cup
    {OneAttachment("default", n) :
        n \in {Network("default", "", <<>>),
               Network("default", "bridge", <<>>),
               Network("default", "bridge", <<Block(BadCidr, EmptyAddr)>>),
               Network("default", "bridge", <<Block(EmptyCidr, EmptyAddr)>>),
               Network("default", "bridge", <<Block(WholeBlock, EmptyAddr)>>)}}

DefaultAttachments ==
    UNION {[D -> {NilAttachment, Attachment(Dotted(BlockBase + 1))}] :
              D \in SUBSET {"n1", "default"}}

DefaultInput(def, a1, a2) ==
    ProjectOf(<<Service(1, a1), Service(2, a2)>>,
              [k \in {"n1"} \cup DOMAIN def |->
                  IF k = "n1" THEN Network("n1", "bridge", <<Block(WholeBlock, EmptyAddr)>>)
                  ELSE def[k]])

IsNormaliseInput(p) ==
    \/ \E pname \in {<<>>, <<"proj">>}, ch \in SeqsUpTo(ArtifactChoices, MaxServices - 1) :
          p = ArtifactInput(pname, ch)
    \/ \E config \in NonEmptySeqs(FoldBlocks, MaxBlocks) : p = FoldInput(config)
    \/ \E def \in DefaultNetworks, a1 \in DefaultAttachments, a2 \in DefaultAttachments :
          p = DefaultInput(def, a1, a2)

InitNormalise ==
    /\ IsNormaliseInput(composeFile)
    /\ project = composeFile
    /\ verr = NotValidated
    /\ nvalidate = 0
    /\ machines = {}
    /\ hostNetworks = {}
    /\ inv = <<>>
    /\ calls = <<>>
    /\ logs = {}

SpecNormalise == InitNormalise /\ [][NextValidate]_vars

(***************************************************************************)
(* The compose commands.  Each running command has a record in `inv`:      *)
(*   op        "up" or "down"                                              *)
(*   pc, step  where the command is                                        *)
(*   project   its own project object, loaded from the compose file        *)
(*   err       what Run returned, once pc = "done"                         *)
(*   haveList, listed   the machines as its one List call returned them    *)
(*   i         the service the serial loop is at                           *)
(*   launched, tasks, wg   the run goroutines and the WaitGroup counter    *)
(*   todo, cur, cache   Down's network loop: the networks not yet visited, *)
(*             the one whose removal is due, driverNetworks               *)
(*   procs     Stop's process tree items: [label, target, status]          *)
(***************************************************************************)
ErrList == "listing machines failed"
ErrAlreadyRunning == "service already running or exited"
ErrInvalidPlatform == "invalid platform"
ErrUnsupportedPlatform == "unsupported platform"
ErrUnsupportedArch == "unsupported architecture"
ErrCatalog == "catalog query failed"
ErrPull == "pull failed"
ErrNoBuildContext == "service has no build context"
ErrBuild == "build failed"
ErrPackage == "package failed"
ErrRemove == "remove failed"
ErrUnsupportedDriver == "unsupported network driver strategy"
ErrNetworkList == "listing networks failed"
ErrNetworkRemove == "network remove failed"
ErrTree == "process tree could not be created"
ErrStop == "stop failed"

ResolutionErrors ==
    {ErrInvalidPlatform, ErrUnsupportedPlatform, ErrUnsupportedArch, ErrCatalog,
     ErrPull, ErrNoBuildContext, ErrBuild, ErrPackage}

NewInv(op, file) ==
    [op |-> op, pc |-> "start", step |-> "", project |-> file, err |-> NoErr,
     haveList |-> FALSE, listed |-> {}, i |-> 0,
     launched |-> 0, tasks |-> <<>>, wg |-> 0,
     todo |-> {}, cur |-> "", cache |-> [d \in {} |-> {}],
     procs |-> <<>>]

\* `return err`
Finish(r, e) == [r EXCEPT !.pc = "done", !.err = e]

Call(u, kind, name, result) == [inv |-> u, kind |-> kind, name |-> name, result |-> result]

(***************************************************************************)
(* The external collaborators' effect on the world.                        *)
(***************************************************************************)
\* a successful run leaves a running machine of that name
RunnerEffect(ms, name) ==
    {m \in ms : m.name # name} \cup {[name |-> name, state |-> "Running"]}

\* a successful remove deletes the machine of that name
RemoverEffect(ms, name) == {m \in ms : m.name # name}

\* a successful network remove deletes the network
NetRemoverEffect(ns, driver, name) == ns \ {[driver |-> driver, name |-> name]}

\* a successful stop leaves the machine of that name stopped
StopperEffect(ms, name) ==
    {IF m.name = name THEN [m EXCEPT !.state = "Exited"] ELSE m : m \in ms}

\* network.Strategies(): the drivers with a registered strategy
Strategies == {"bridge"}

\* mplatform.PlatformsByName()
SupportedPlatforms == {"qemu", "kvm", "firecracker", "xen"}

(***************************************************************************)
(* kraft compose up                                                        *)
(***************************************************************************)
\* strings.SplitN(s, sep, 2)
SplitN2(s, sep) ==
    IF \E k \in 1..Len(s) : s[k] = sep
    THEN LET at == CHOOSE k \in 1..Len(s) :
                      s[k] = sep /\ \A j \in 1..(k - 1) : s[j] # sep
         IN  <<SubSeq(s, 1, at - 1), SubSeq(s, at + 1, Len(s))>>
    ELSE <<s>>

\* an extraction that splits at every '/' and takes the first two parts
PlatArchLoose(service) ==
    LET parts == SplitN2(service.Platform, "/")
        arch == IF Len(parts) = 2 THEN SplitN2(parts[2], "/")[1] ELSE <<>>
    IN  IF Len(parts) # 2
        THEN [err |-> ErrInvalidPlatform, plat |-> <<>>, arch |-> <<>>]
        ELSE IF parts[1] \notin {<<pl>> : pl \in SupportedPlatforms}
        THEN [err |-> ErrUnsupportedPlatform, plat |-> <<>>, arch |-> <<>>]
        ELSE IF arch \notin {<<"x86_64">>, <<"amd64">>, <<"arm32">>, <<"arm64">>}
        THEN [err |-> ErrUnsupportedArch, plat |-> <<>>, arch |-> <<>>]
        ELSE [err |-> NoErr, plat |-> parts[1], arch |-> arch]

\* platArchFromService
PlatArch(service) ==
    LET parts == SplitN2(service.Platform, "/")
    IN  IF Len(parts) # 2
        THEN [err |-> ErrInvalidPlatform, plat |-> <<>>, arch |-> <<>>]
        ELSE IF parts[1] \notin {<<pl>> : pl \in SupportedPlatforms}
        THEN [err |-> ErrUnsupportedPlatform, plat |-> <<>>, arch |-> <<>>]
        ELSE IF parts[2] \notin {<<"x86_64">>, <<"amd64">>, <<"arm32">>, <<"arm64">>}
        THEN [err |-> ErrUnsupportedArch, plat |-> <<>>, arch |-> <<>>]
        ELSE [err |-> NoErr, plat |-> parts[1], arch |-> parts[2]]

\* a pre-flight check that only looks at the first service
PreflightConflictFirstOnly(services, listed) ==
    Len(services) >= 1 /\ \E m \in listed : m.name = services[1].Name

\* a pre-flight check that only counts live machines
PreflightConflictLiveOnly(services, listed) ==
    \E k \in 1..Len(services) : \E m \in listed :
        m.name = services[k].Name /\ m.state \in {"Running", "Paused"}

\* "Check that none of the services are already running": some service has
\* the name of a listed machine
PreflightConflict(services, listed) ==
    \E k \in 1..Len(services) : \E m \in listed : m.name = services[k].Name

\* leaving the resolve loop one service early
AllResolvedOffByOne(r, k) == k >= Len(r.project.Services)

\* the serial resolve loop is over
AllResolved(r, k) == k > Len(r.project.Services)

\* ensureServiceIsPackaged returned nil for service r.i: on to the next
\* service, or, after the last, to the run phase
NextService(r) ==
    LET r1 == [r EXCEPT !.i = r.i + 1, !.step = "local"]
    IN  IF AllResolved(r1, r1.i)
        THEN [r1 EXCEPT !.pc = "run", !.step = "",
                        !.tasks = [k \in 1..Len(r.project.Services) |-> "unlaunched"]]
        ELSE r1

\* the resolve loop starts (it is over at once for a project with no service)
EnterResolve(r) ==
    LET r1 == [r EXCEPT !.pc = "resolve", !.i = 1, !.step = "local"]
    IN  IF AllResolved(r1, 1)
        THEN [r1 EXCEPT !.pc = "run", !.step = "", !.tasks = <<>>]
        ELSE r1

IsUp(u) == u \in DOMAIN inv /\ inv[u].op = "up"

\* an Up that goes on to the listing whatever Validate returned
UpValidateIgnoringError(u) ==
    /\ IsUp(u) /\ inv[u].pc = "start"
    /\ \E det \in Detections :
         \E out \in ValidateOutcomes(composeFile, det) :
            inv' = [inv EXCEPT ![u] = [@ EXCEPT !.pc = "list", !.project = out.project]]
    /\ UNCHANGED <<validateVars, envVars, calls, logs>>

\* NewProjectFromComposeFile and project.Validate
UpValidate(u) ==
    /\ IsUp(u) /\ inv[u].pc = "start"
    /\ \E det \in Detections :
         \E out \in ValidateOutcomes(composeFile, det) :
            inv' = [inv EXCEPT ![u] =
                       IF out.err # NoErr THEN Finish([@ EXCEPT !.project = out.project], out.err)
                       ELSE [@ EXCEPT !.pc = "list", !.project = out.project]]
    /\ UNCHANGED <<validateVars, envVars, calls, logs>>

\* controller.List and the pre-flight loop over services and machines
UpList(u) ==
    /\ IsUp(u) /\ inv[u].pc = "list"
    /\ \E ok \in BOOLEAN :
         /\ calls' = Append(calls, Call(u, "list", <<>>, IF ok THEN "ok" ELSE "err"))
         /\ inv' = [inv EXCEPT ![u] =
                       IF ~ok THEN Finish(@, ErrList)
                       ELSE LET r == [@ EXCEPT !.haveList = TRUE, !.listed = machines]
                            IN  IF PreflightConflict(r.project.Services, r.listed)
                                THEN Finish(r, ErrAlreadyRunning)
                                ELSE EnterResolve(r)]
    /\ UNCHANGED <<validateVars, envVars, logs>>

Resolving(u, step) == IsUp(u) /\ inv[u].pc = "resolve" /\ inv[u].step = step
CurrentService(u) == inv[u].project.Services[inv[u].i]

\* ensureServiceIsPackaged up to the local catalog query
UpCatalogLocal(u) ==
    /\ Resolving(u, "local")
    /\ IF PlatArch(CurrentService(u)).err # NoErr
       THEN /\ inv' = [inv EXCEPT ![u] = Finish(@, PlatArch(CurrentService(u)).err)]
            /\ UNCHANGED calls
       ELSE \E res \in {"err", "hit", "miss"} :
            /\ calls' = Append(calls, Call(u, "catalog-local", CurrentService(u).Name, res))
            /\ inv' = [inv EXCEPT ![u] =
                          IF res = "err" THEN Finish(@, ErrCatalog)
                          ELSE IF res = "hit" THEN NextService(@)
                          ELSE [@ EXCEPT !.step = "remote"]]
    /\ UNCHANGED <<validateVars, envVars, logs>>

\* a resolver that builds although the remote catalog has the artifact
UpCatalogRemoteBuildsOnHit(u) ==
    /\ Resolving(u, "remote")
    /\ \E res \in {"err", "hit", "miss"} :
         /\ calls' = Append(calls, Call(u, "catalog-remote", CurrentService(u).Name, res))
         /\ inv' = [inv EXCEPT ![u] =
                       IF res = "err" THEN Finish(@, ErrCatalog)
                       ELSE [@ EXCEPT !.step = "build"]]
    /\ UNCHANGED <<validateVars, envVars, logs>>

\* the remote catalog query
UpCatalogRemote(u) ==
    /\ Resolving(u, "remote")
    /\ \E res \in {"err", "hit", "miss"} :
         /\ calls' = Append(calls, Call(u, "catalog-remote", CurrentService(u).Name, res))
         /\ inv' = [inv EXCEPT ![u] =
                       IF res = "err" THEN Finish(@, ErrCatalog)
                       ELSE IF res = "hit" THEN [@ EXCEPT !.step = "pull"]
                       ELSE [@ EXCEPT !.step = "build"]]
    /\ UNCHANGED <<validateVars, envVars, logs>>

\* pullOptions.Run
UpPull(u) ==
    /\ Resolving(u, "pull")
    /\ \E ok \in BOOLEAN :
         /\ calls' = Append(calls, Call(u, "pull", CurrentService(u).Name,
                                        IF ok THEN "ok" ELSE "err"))
         /\ inv' = [inv EXCEPT ![u] = IF ok THEN NextService(@) ELSE Finish(@, ErrPull)]
    /\ UNCHANGED <<validateVars, envVars, logs>>

\* a build step that does not look at the build context
UpBuildUnchecked(u) ==
    /\ Resolving(u, "build")
    /\ \E ok \in BOOLEAN :
         /\ calls' = Append(calls, Call(u, "build", CurrentService(u).Name,
                                        IF ok THEN "ok" ELSE "err"))
         /\ inv' = [inv EXCEPT ![u] =
                       IF ok THEN [@ EXCEPT !.step = "package"] ELSE Finish(@, ErrBuild)]
    /\ UNCHANGED <<validateVars, envVars, logs>>

\* buildService
UpBuild(u) ==
    /\ Resolving(u, "build")
    /\ IF ~CurrentService(u).Build
       THEN /\ inv' = [inv EXCEPT ![u] = Finish(@, ErrNoBuildContext)]
            /\ UNCHANGED calls
       ELSE \E ok \in BOOLEAN :
            /\ calls' = Append(calls, Call(u, "build", CurrentService(u).Name,
                                           IF ok THEN "ok" ELSE "err"))
            /\ inv' = [inv EXCEPT ![u] =
                          IF ok THEN [@ EXCEPT !.step = "package"] ELSE Finish(@, ErrBuild)]
    /\ UNCHANGED <<validateVars, envVars, logs>>

\* pkgService
UpPackage(u) ==
    /\ Resolving(u, "package")
    /\ \E ok \in BOOLEAN :
         /\ calls' = Append(calls, Call(u, "package", CurrentService(u).Name,
                                        IF ok THEN "ok" ELSE "err"))
         /\ inv' = [inv EXCEPT ![u] = IF ok THEN NextService(@) ELSE Finish(@, ErrPackage)]
    /\ UNCHANGED <<validateVars, envVars, logs>>

\* one iteration of the launch loop: wg.Add(1); go func(service) {...}
UpLaunch(u) ==
    /\ IsUp(u) /\ inv[u].pc = "run"
    /\ inv[u].launched < Len(inv[u].project.Services)
    /\ inv' = [inv EXCEPT ![u] = [@ EXCEPT !.launched = @ + 1, !.wg = @ + 1,
                                            !.tasks[inv[u].launched + 1] = "ready"]]
    /\ UNCHANGED <<validateVars, envVars, calls, logs>>

\* a goroutine that reads the service at the launch loop's current index
\* instead of the service it was handed
TaskRunSharedIndex(u, k) ==
    /\ IsUp(u) /\ k \in DOMAIN inv[u].tasks /\ inv[u].tasks[k] = "ready"
    /\ inv' = [inv EXCEPT ![u] = [@ EXCEPT !.tasks[k] = "running"]]
    /\ calls' = Append(calls, Call(u, "run", inv[u].project.Services[inv[u].launched].Name,
                                   "started"))
    /\ UNCHANGED <<validateVars, envVars, logs>>

\* a goroutine enters runService and calls runOptions.Run
TaskRun(u, k) ==
    /\ IsUp(u) /\ k \in DOMAIN inv[u].tasks /\ inv[u].tasks[k] = "ready"
    /\ IF PlatArch(inv[u].project.Services[k]).err # NoErr
       THEN /\ inv' = [inv EXCEPT ![u] = [@ EXCEPT !.tasks[k] = "failed", !.wg = @ - 1]]
            /\ logs' = logs \cup {[inv |-> u, name |-> inv[u].project.Services[k].Name]}
            /\ UNCHANGED calls
       ELSE /\ inv' = [inv EXCEPT ![u] = [@ EXCEPT !.tasks[k] = "running"]]
            /\ calls' = Append(calls, Call(u, "run", inv[u].project.Services[k].Name,
                                           "started"))
            /\ UNCHANGED logs
    /\ UNCHANGED <<validateVars, envVars>>

\* runOptions.Run returns in a goroutine: the error is logged; wg.Done()
TaskReturn(u, k) ==
    /\ IsUp(u) /\ k \in DOMAIN inv[u].tasks /\ inv[u].tasks[k] = "running"
    /\ \E ok \in BOOLEAN :
         /\ inv' = [inv EXCEPT ![u] =
                       [@ EXCEPT !.tasks[k] = IF ok THEN "ok" ELSE "failed", !.wg = @ - 1]]
         /\ logs' = IF ok THEN logs
                    ELSE logs \cup {[inv |-> u, name |-> inv[u].project.Services[k].Name]}
         /\ machines' = IF ok THEN RunnerEffect(machines, inv[u].project.Services[k].Name)
                        ELSE machines
    /\ UNCHANGED <<validateVars, hostNetworks, calls>>

\* a barrier that opens when at most one goroutine is left
BarrierOpenEarly(r) == r.wg <= 1

\* wg.Wait() returns
BarrierOpen(r) == r.wg = 0

\* a return value that reports a failed task
UpResultFirstFailure(r) ==
    IF \E k \in DOMAIN r.tasks : r.tasks[k] = "failed" THEN "run failed" ELSE NoErr

\* `return nil` after wg.Wait()
UpResult(r) == NoErr

\* wg.Wait() and the return
UpWait(u) ==
    /\ IsUp(u) /\ inv[u].pc = "run"
    /\ inv[u].launched = Len(inv[u].project.Services)
    /\ BarrierOpen(inv[u])
    /\ inv' = [inv EXCEPT ![u] = Finish(@, UpResult(@))]
    /\ UNCHANGED <<validateVars, envVars, calls, logs>>

(***************************************************************************)
(* kraft compose down                                                      *)
(***************************************************************************)
IsDown(d) == d \in DOMAIN inv /\ inv[d].op = "down"

\* a match that asks for a live machine
ServiceMatchesLive(service, listed) ==
    \E m \in listed : m.name = service.Name /\ m.state \in {"Running", "Paused"}

\* `service.Name == machine.Name` for some listed machine
ServiceMatches(service, listed) == \E m \in listed : m.name = service.Name

\* the first service from index k on that has a listed machine of its name
\* (one past the last service if there is none)
NextMatch(r, k) ==
    LET hits == {j \in k..Len(r.project.Services) :
                    ServiceMatches(r.project.Services[j], r.listed)}
    IN  IF hits = {} THEN Len(r.project.Services) + 1
        ELSE CHOOSE j \in hits : \A h \in hits : j <= h

\* the network loop is over: `return nil`
NetworksDone(r) ==
    IF r.todo = {} /\ r.cur = "" THEN Finish(r, NoErr) ELSE r

\* the service loop goes on from index k, or is over and the network loop
\* starts with an empty driverNetworks
ContinueRemoving(r, k) ==
    LET j == NextMatch(r, k)
    IN  IF j <= Len(r.project.Services)
        THEN [r EXCEPT !.pc = "remove", !.i = j]
        ELSE NetworksDone([r EXCEPT !.pc = "networks", !.i = j,
                                    !.todo = DOMAIN r.project.Networks])

\* NewProjectFromComposeFile and project.Validate
DownValidate(d) ==
    /\ IsDown(d) /\ inv[d].pc = "start"
    /\ \E det \in Detections :
         \E out \in ValidateOutcomes(composeFile, det) :
            inv' = [inv EXCEPT ![d] =
                       IF out.err # NoErr THEN Finish([@ EXCEPT !.project = out.project], out.err)
                       ELSE [@ EXCEPT !.pc = "list", !.project = out.project]]
    /\ UNCHANGED <<validateVars, envVars, calls, logs>>

\* controller.List
DownList(d) ==
    /\ IsDown(d) /\ inv[d].pc = "list"
    /\ \E ok \in BOOLEAN :
         /\ calls' = Append(calls, Call(d, "list", <<>>, IF ok THEN "ok" ELSE "err"))
         /\ inv' = [inv EXCEPT ![d] =
                       IF ~ok THEN Finish(@, ErrList)
                       ELSE ContinueRemoving([@ EXCEPT !.haveList = TRUE,
                                                       !.listed = machines], 1)]
    /\ UNCHANGED <<validateVars, envVars, logs>>

\* a service loop that logs a failed removal and goes on
AfterRemoveIgnoringError(r, ok) == ContinueRemoving(r, r.i + 1)

\* `if err := removeService(ctx, service); err != nil { return err }`
AfterRemove(r, ok) ==
    IF ok THEN ContinueRemoving(r, r.i + 1) ELSE Finish(r, ErrRemove)

\* removeService for the service the loop is at
DownRemove(d) ==
    /\ IsDown(d) /\ inv[d].pc = "remove"
    /\ \E ok \in BOOLEAN :
         /\ calls' = Append(calls, Call(d, "remove", inv[d].project.Services[inv[d].i].Name,
                                        IF ok THEN "ok" ELSE "err"))
         /\ machines' = IF ok
                        THEN RemoverEffect(machines, inv[d].project.Services[inv[d].i].Name)
                        ELSE machines
         /\ inv' = [inv EXCEPT ![d] = AfterRemove(@, ok)]
    /\ UNCHANGED <<validateVars, hostNetworks, logs>>

\* a listing that still reports networks that have been removed
ExistingNetworksStale(driver) == {<<"n1">>, <<"n2">>}

\* the names controller.List returns for a driver
ExistingNetworks(driver) == {n.name : n \in {x \in hostNetworks : x.driver = driver}}

\* a lookup that finds every declared network
NetworkExistsAlways(network, cache) == TRUE

\* the inner loop: is the declared network among the driver's networks
NetworkExists(network, cache) == network.Name \in cache[network.Driver]

\* the network loop takes a network (in map order): the driver's networks
\* are listed unless cached, then the declared network is looked up in them
DownNextNetwork(d) ==
    /\ IsDown(d) /\ inv[d].pc = "networks" /\ inv[d].cur = ""
    /\ \E k \in inv[d].todo :
         LET network == inv[d].project.Networks[k]
             visit(r) == IF NetworkExists(network, r.cache)
                         THEN [r EXCEPT !.cur = k]
                         ELSE NetworksDone([r EXCEPT !.todo = @ \ {k}])
         IN  IF network.Driver \in DOMAIN inv[d].cache
             THEN /\ inv' = [inv EXCEPT ![d] = visit(@)]
                  /\ UNCHANGED calls
             ELSE IF network.Driver \notin Strategies
             THEN /\ inv' = [inv EXCEPT ![d] = Finish(@, ErrUnsupportedDriver)]
                  /\ UNCHANGED calls
             ELSE \E ok \in BOOLEAN :
                  /\ calls' = Append(calls, Call(d, "network-list", <<network.Driver>>,
                                                 IF ok THEN "ok" ELSE "err"))
                  /\ inv' = [inv EXCEPT ![d] =
                                IF ~ok THEN Finish(@, ErrNetworkList)
                                ELSE visit([@ EXCEPT !.cache =
                                              [x \in DOMAIN @ \cup {network.Driver} |->
                                                  IF x = network.Driver
                                                  THEN ExistingNetworks(network.Driver)
                                                  ELSE @[x]]])]
    /\ UNCHANGED <<validateVars, envVars, logs>>

\* `if err := removeNetwork(ctx, projectNetwork); err != nil { return err }`
AfterNetworkRemove(r, ok) ==
    IF ok THEN NetworksDone([r EXCEPT !.todo = @ \ {r.cur}, !.cur = ""])
    ELSE Finish(r, ErrNetworkRemove)

\* removeNetwork for the network the loop is at
DownRemoveNetwork(d) ==
    /\ IsDown(d) /\ inv[d].pc = "networks" /\ inv[d].cur # ""
    /\ LET network == inv[d].project.Networks[inv[d].cur]
       IN  \E ok \in BOOLEAN :
           /\ calls' = Append(calls, Call(d, "network-remove", network.Name,
                                          IF ok THEN "ok" ELSE "err"))
           /\ hostNetworks' = IF ok
                              THEN NetRemoverEffect(hostNetworks, network.Driver, network.Name)
                              ELSE hostNetworks
           /\ inv' = [inv EXCEPT ![d] = AfterNetworkRemove(@, ok)]
    /\ UNCHANGED <<validateVars, machines, logs>>

(***************************************************************************)
(* kraft compose stop                                                      *)
(***************************************************************************)
IsStop(s) == s \in DOMAIN inv /\ inv[s].op = "stop"

\* a match on the name alone
StopMatchesAnyState(service, listed) == \E m \in listed : m.name = service.Name

\* `service.Name == machine.Name && (State == Running || State == Paused)`
\* for some listed machine
StopMatches(service, listed) ==
    \E m \in listed : m.name = service.Name /\ m.state \in {"Running", "Paused"}

\* machine.Name as the task's closure reads it when it runs: the machine of
\* its own iteration or, in a build where the iterations of the inner loop
\* share the variable `machine`, the last machine of the listing
ClosureTarget(service, shared, last) == IF shared THEN last ELSE service.Name

\* the loops over services and machines: `processes`, in service order
RECURSIVE ScheduleFrom(_, _, _, _, _)
ScheduleFrom(services, listed, shared, last, k) ==
    IF k > Len(services) THEN <<>>
    ELSE LET rest == ScheduleFrom(services, listed, shared, last, k + 1)
         IN  IF StopMatches(services[k], listed)
             THEN <<[label |-> services[k].Name,
                     target |-> ClosureTarget(services[k], shared, last),
                     status |-> "pending"]>> \o rest
             ELSE rest

\* NewProjectFromComposeFile and project.Validate
StopValidate(s) ==
    /\ IsStop(s) /\ inv[s].pc = "start"
    /\ \E det \in Detections :
         \E out \in ValidateOutcomes(composeFile, det) :
            inv' = [inv EXCEPT ![s] =
                       IF out.err # NoErr THEN Finish([@ EXCEPT !.project = out.project], out.err)
                       ELSE [@ EXCEPT !.pc = "list", !.project = out.project]]
    /\ UNCHANGED <<validateVars, envVars, calls, logs>>

\* machineController.List, the scheduling loops, `len(processes) == 0` and
\* processtree.NewProcessTree
StopList(s) ==
    /\ IsStop(s) /\ inv[s].pc = "list"
    /\ \E ok \in BOOLEAN :
         /\ calls' = Append(calls, Call(s, "list", <<>>, IF ok THEN "ok" ELSE "err"))
         /\ IF ~ok THEN inv' = [inv EXCEPT ![s] = Finish(@, ErrList)]
            ELSE \E shared \in BOOLEAN, last \in {m.name : m \in machines} \cup {<<>>},
                    treeOk \in BOOLEAN :
                 LET r == [inv[s] EXCEPT !.haveList = TRUE, !.listed = machines,
                                         !.procs = ScheduleFrom(inv[s].project.Services,
                                                                machines, shared, last, 1)]
                 IN  /\ (last = <<>>) = (machines = {})
                     /\ inv' = [inv EXCEPT ![s] =
                                   IF Len(r.procs) = 0 THEN Finish(r, NoErr)
                                   ELSE IF ~treeOk THEN Finish(r, ErrTree)
                                   ELSE [r EXCEPT !.pc = "tree"]]
    /\ UNCHANGED <<validateVars, envVars, logs>>

\* a driver that runs its items in parallel
IsParallelTrue == TRUE

\* processtree.IsParallel(false)
IsParallel == FALSE

\* the items the process tree may start: in sequential mode the first
\* pending one, once every earlier item has succeeded; in parallel mode any
\* pending one
TreeReady(procs) ==
    {k \in DOMAIN procs :
        /\ procs[k].status = "pending"
        /\ \A j \in DOMAIN procs : procs[j].status # "failed"
        /\ IsParallel \/ \A j \in 1..(k - 1) : procs[j].status = "ok"}

\* model.Start() once item k has returned: a failure aborts the remaining
\* items and is returned; after the last item Start returns nil
TreeAfter(r, k, ok) ==
    LET r1 == [r EXCEPT !.procs[k].status = IF ok THEN "ok" ELSE "failed"]
    IN  IF ~ok THEN Finish(r1, ErrStop)
        ELSE IF \A j \in DOMAIN r1.procs : r1.procs[j].status = "ok" THEN Finish(r1, NoErr)
        ELSE r1

\* the process tree starts an item: kernelStopOptions.Run(ctx, {machine.Name})
StopTaskStart(s, k) ==
    /\ IsStop(s) /\ inv[s].pc = "tree" /\ k \in TreeReady(inv[s].procs)
    /\ inv' = [inv EXCEPT ![s] = [@ EXCEPT !.procs[k].status = "running"]]
    /\ calls' = Append(calls, Call(s, "stop", inv[s].procs[k].target, "started"))
    /\ UNCHANGED <<validateVars, envVars, logs>>

\* the stop call of an item returns
StopTaskReturn(s, k) ==
    /\ IsStop(s) /\ inv[s].pc = "tree"
    /\ k \in DOMAIN inv[s].procs /\ inv[s].procs[k].status = "running"
    /\ \E ok \in BOOLEAN :
         /\ machines' = IF ok THEN StopperEffect(machines, inv[s].procs[k].target)
                        ELSE machines
         /\ inv' = [inv EXCEPT ![s] = TreeAfter(@, k, ok)]
    /\ UNCHANGED <<validateVars, hostNetworks, calls, logs>>

(***************************************************************************)
(* Projects and worlds the commands run in.                                *)
(***************************************************************************)
OrchNames == <<"web", "db", "app", "cache", "queue">>
OrchImages == <<<<"nginx">>, <<>>, <<"app", ":", "v1">>, <<"redis">>, <<>>>>
OrchBuilds == <<FALSE, TRUE, TRUE, FALSE, TRUE>>

OrchService(k, attached) ==
    [Name |-> <<OrchNames[k]>>, Image |-> OrchImages[k], Build |-> OrchBuilds[k],
     Platform |-> <<"qemu", "/", "x86_64">>,
     Networks |-> IF attached THEN OneAttachment("n1", NilAttachment) ELSE NoAttachments]

OrchNetwork(name, driver) ==
    Network(name, driver, <<Block(WholeBlock, EmptyAddr)>>)

\* a valid project of n services on the given networks
OrchProject(n, nets) ==
    ProjectOf([k \in 1..n |-> OrchService(k, k = 1 /\ "n1" \in DOMAIN nets)], nets)

\* a project Validate rejects: its service has neither image nor build context
InvalidProject ==
    ProjectOf(<<[OrchService(1, FALSE) EXCEPT !.Image = <<>>]>>, NoAttachments)

OneNetwork == OneAttachment("n1", OrchNetwork("n1", "bridge"))

MachineStates == {"Running", "Paused", "Exited"}

\* the machines of the world: per service of the file none or one machine of
\* its (prefixed) name in some state, and always one foreign machine
ServiceMachineName(file, k) == PrefixedName(DefaultedName(file), file.Services[k].Name)

Worlds(file) ==
    {{[name |-> <<"other">>, state |-> "Running"]}
       \cup {[name |-> ServiceMachineName(file, k), state |-> st[k]] :
                k \in {j \in 1..Len(file.Services) : st[j] # "absent"}} :
     st \in [1..Len(file.Services) -> MachineStates \cup {"absent"}]}

InitUp ==
    /\ \/ \E n \in 0..MaxOrchServices : composeFile = OrchProject(n, OneNetwork)
       \/ composeFile = InvalidProject
    /\ project = composeFile
    /\ verr = NotValidated
    /\ nvalidate = 0
    /\ machines \in Worlds(composeFile)
    /\ hostNetworks = {}
    /\ inv = <<NewInv("up", composeFile)>>
    /\ calls = <<>>
    /\ logs = {}

NextUp ==
    \/ \E u \in DOMAIN inv : UpValidate(u)
    \/ \E u \in DOMAIN inv : UpList(u)
    \/ \E u \in DOMAIN inv : UpCatalogLocal(u)
    \/ \E u \in DOMAIN inv : UpCatalogRemote(u)
    \/ \E u \in DOMAIN inv : UpPull(u)
    \/ \E u \in DOMAIN inv : UpBuild(u)
    \/ \E u \in DOMAIN inv : UpPackage(u)
    \/ \E u \in DOMAIN inv : UpLaunch(u)
    \/ \E u \in DOMAIN inv : \E k \in DOMAIN inv[u].tasks : TaskRun(u, k)
    \/ \E u \in DOMAIN inv : \E k \in DOMAIN inv[u].tasks : TaskReturn(u, k)
    \/ \E u \in DOMAIN inv : UpWait(u)

SpecUp == InitUp /\ [][NextUp]_vars

\* the networks a project of the down command declares
DownNetworks ==
    {NoAttachments, OneNetwork,
     [k \in {"n1", "n2"} |-> OrchNetwork(k, "bridge")],
     [k \in {"n1", "n2"} |-> OrchNetwork(k, IF k = "n1" THEN "bridge" ELSE "macvlan")]}

\* the networks that exist when the command starts
HostNetworkSets ==
    SUBSET {[driver |-> "bridge", name |-> <<"n1">>],
            [driver |-> "bridge", name |-> <<"n2">>]}

InitDown ==
    /\ \/ \E n \in 0..MaxOrchServices, nets \in DownNetworks :
             composeFile = OrchProject(n, nets)
       \/ composeFile = InvalidProject
    /\ project = composeFile
    /\ verr = NotValidated
    /\ nvalidate = 0
    /\ machines \in Worlds(composeFile)
    /\ hostNetworks \in HostNetworkSets
    /\ inv = <<NewInv("down", composeFile)>>
    /\ calls = <<>>
    /\ logs = {}

\* `kraft compose down` is run again after the previous run has returned
DownAgain ==
    /\ Len(inv) < MaxDownRuns
    /\ inv[Len(inv)].op = "down" /\ inv[Len(inv)].pc = "done"
    /\ inv' = Append(inv, NewInv("down", composeFile))
    /\ UNCHANGED <<validateVars, envVars, calls, logs>>

NextDown ==
    \/ DownAgain
    \/ \E d \in DOMAIN inv : DownValidate(d)
    \/ \E d \in DOMAIN inv : DownList(d)
    \/ \E d \in DOMAIN inv : DownRemove(d)
    \/ \E d \in DOMAIN inv : DownNextNetwork(d)
    \/ \E d \in DOMAIN inv : DownRemoveNetwork(d)

SpecDown == InitDown /\ [][NextDown]_vars

(***************************************************************************)
(* Properties of the validator.                                            *)
(***************************************************************************)
\* Validate has returned nil on `project`
Validated == nvalidate >= 1 /\ verr = NoErr

\* the services of project p attached to network k
AttachedTo(p, k) == {i \in 1..Len(p.Services) : k \in DOMAIN p.Services[i].Networks}

ServiceAddr(i, k) == ParseIP(project.Services[i].Networks[k].Ipv4Address)
GatewayAddr(k) == ParseIP(project.Networks[k].Config[1].Gateway)
BaseAddr(k) == StoredNet(project.Networks[k]).IP

\* the attachment of service i to network k is a user pin in the compose file
PinnedInFile(i, k) ==
    /\ ~composeFile.Services[i].Networks[k].isNil
    /\ composeFile.Services[i].Networks[k].Ipv4Address.form # "empty"

\* C1 (as claimed): after a successful Validate, within every network the
\* service addresses are pairwise distinct and none of them is the network's
\* gateway or the subnet's base address.
C1_AddressesDistinctFromEachOtherGatewayAndBase ==
    Validated =>
        \A k \in DOMAIN project.Networks :
            \A i \in AttachedTo(project, k) :
                /\ ServiceAddr(i, k) # GatewayAddr(k)
                /\ ServiceAddr(i, k) # BaseAddr(k)
                /\ \A j \in AttachedTo(project, k) \ {i} :
                      ServiceAddr(i, k) # ServiceAddr(j, k)

\* What does hold (supporting C1's diagnosis): service addresses are pairwise
\* distinct and differ from the base address, and they differ from the
\* gateway whenever the gateway is stored in dotted spelling.
AddressesDistinctUnlessGatewayRespelled ==
    Validated =>
        \A k \in DOMAIN project.Networks :
            \A i \in AttachedTo(project, k) :
                /\ project.Networks[k].Config[1].Gateway.form = "dotted"
                      => ServiceAddr(i, k) # GatewayAddr(k)
                /\ ServiceAddr(i, k) # BaseAddr(k)
                /\ \A j \in AttachedTo(project, k) \ {i} :
                      ServiceAddr(i, k) # ServiceAddr(j, k)

\* the compose file has only valid networks, every attachment names one of
\* them, and no attachment is pinned
OnlyUnpinned ==
    /\ \A k \in DOMAIN composeFile.Networks :
          k # "default" /\ NetworkCheck(composeFile.Networks[k]).err = NoErr
    /\ \A i \in 1..Len(composeFile.Services) :
          \A k \in DOMAIN composeFile.Services[i].Networks :
             k \in DOMAIN composeFile.Networks /\ ~PinnedInFile(i, k)

\* N: the addresses of network k's subnet; K: its unpinned attachments
SubnetSize(k) == NetSize(FoldIpam(composeFile.Networks[k].Config).Subnet.bits)
Unpinned(k) == Cardinality(AttachedTo(composeFile, k))

\* C2 (as claimed): with N addresses and K unpinned attachments and no pins,
\* Validate succeeds when K <= N-2 and fails with exhaustion when K > N-2
\* (stated for projects in which every network has at least one attachment).
C2_SucceedsExactlyUpToNMinusTwo ==
    (/\ nvalidate = 1 /\ OnlyUnpinned
     /\ \A k \in DOMAIN composeFile.Networks : Unpinned(k) >= 1) =>
        /\ verr = NoErr <=>
              \A k \in DOMAIN composeFile.Networks : Unpinned(k) <= SubnetSize(k) - 2
        /\ verr \in {NoErr, ErrExhausted}

\* the gateway of network k as the compose file gives it: as written, or,
\* when omitted, the address of the CIDR as written
FileGateway(k) ==
    LET ipam == FoldIpam(composeFile.Networks[k].Config)
    IN  IF ipam.Gateway.form = "empty" THEN Dotted(ipam.Subnet.ip) ELSE ipam.Gateway

FileBase(k) ==
    LET ipam == FoldIpam(composeFile.Networks[k].Config)
    IN  ipam.Subnet.ip - (ipam.Subnet.ip % NetSize(ipam.Subnet.bits))

\* R: the addresses of network k the seeded table keeps from the planner
Reserved(k) ==
    IF FileGateway(k).form = "dotted" /\ FileGateway(k).val # FileBase(k) THEN 2 ELSE 1

\* C2 (amended): Validate succeeds when K <= N-R and fails with exhaustion
\* when K > N-R, where R = 2 if the gateway is a dotted address other than
\* the base address and R = 1 otherwise.
C2_SucceedsExactlyUpToNMinusReserved ==
    (nvalidate = 1 /\ OnlyUnpinned) =>
        /\ verr = NoErr <=>
              \A k \in DOMAIN composeFile.Networks :
                 Unpinned(k) <= SubnetSize(k) - Reserved(k)
        /\ verr \in {NoErr, ErrExhausted}

\* C2 witness: a network whose gateway is its base address takes N-1 services
C2_Witness ==
    /\ nvalidate = 1 /\ OnlyUnpinned /\ verr = NoErr
    /\ \E k \in DOMAIN composeFile.Networks :
          /\ FileGateway(k) = Dotted(FileBase(k))
          /\ SubnetSize(k) >= 2
          /\ Unpinned(k) = SubnetSize(k) - 1

\* C3 (as claimed): Validate accepts a pinned ipv4_address only if it parses
\* and lies within the subnet of its network.
C3_PinsLieWithinTheSubnet ==
    Validated =>
        \A i \in 1..Len(composeFile.Services) :
            \A k \in DOMAIN composeFile.Services[i].Networks \ {"default"} :
                PinnedInFile(i, k) =>
                    /\ ParseIP(composeFile.Services[i].Networks[k].Ipv4Address) # NilIP
                    /\ Contains(StoredNet(project.Networks[k]),
                                ParseIP(composeFile.Services[i].Networks[k].Ipv4Address))

(***************************************************************************)
(* Properties of the commands.                                             *)
(***************************************************************************)
UpIds == {u \in DOMAIN inv : inv[u].op = "up"}
DownIds == {d \in DOMAIN inv : inv[d].op = "down"}

\* the positions in `calls` of the calls command u made
CallsBy(u) == {p \in DOMAIN calls : calls[p].inv = u}

WorkKinds == {"catalog-local", "catalog-remote", "pull", "build", "package", "run"}

NoWorkCalls(u) == \A p \in CallsBy(u) : calls[p].kind \notin WorkKinds

\* the declared services (by index in the compose file) that have a machine
\* of their prefixed name, in one of the given states, in u's listing
ServicesWithMachine(u, states) ==
    {k \in 1..Len(composeFile.Services) :
        \E m \in inv[u].listed :
            m.name = ServiceMachineName(composeFile, k) /\ m.state \in states}

AnyState == MachineStates
Live == {"Running", "Paused"}

RejectedAsRunning(u) == inv[u].pc = "done" /\ inv[u].err = ErrAlreadyRunning

\* C4: if Up's listing holds a Running instance with the name of a declared
\* service, Up returns ServiceAlreadyRunning and has made no catalog, pull,
\* build, package or run call for any service.
C4_RunningInstanceAbortsUpBeforeAnyWork ==
    \A u \in UpIds :
        (inv[u].haveList /\ ServicesWithMachine(u, {"Running"}) # {}) =>
            RejectedAsRunning(u) /\ NoWorkCalls(u)

\* C4 witness: the second of two services is running, the first has no machine
C4_Witness ==
    \E u \in UpIds :
        /\ inv[u].haveList /\ RejectedAsRunning(u)
        /\ Len(composeFile.Services) >= 2
        /\ ServicesWithMachine(u, AnyState) = {2}
        /\ ServicesWithMachine(u, {"Running"}) = {2}

\* C5 (as claimed): the pre-flight check rejects exactly when a declared
\* service has a Running or Paused instance of its name.
C5_RejectsExactlyLiveInstances ==
    \A u \in UpIds :
        inv[u].haveList =>
            (RejectedAsRunning(u) <=> ServicesWithMachine(u, Live) # {})

\* C5 (amended): the pre-flight check rejects exactly when a declared
\* service has an instance of its name in the listing, whatever its state.
C5_RejectsExactlyExistingInstances ==
    \A u \in UpIds :
        inv[u].haveList =>
            (RejectedAsRunning(u) <=> ServicesWithMachine(u, AnyState) # {})

\* C5 witness: Up is rejected although every matching instance has exited
C5_Witness ==
    \E u \in UpIds :
        /\ inv[u].haveList /\ RejectedAsRunning(u)
        /\ ServicesWithMachine(u, Live) = {}
        /\ ServicesWithMachine(u, {"Exited"}) # {}

\* the declared services Down has issued a Remove call for
RemovedBy(d) ==
    {k \in 1..Len(composeFile.Services) :
        \E p \in CallsBy(d) :
            calls[p].kind = "remove" /\ calls[p].name = ServiceMachineName(composeFile, k)}

RemoveCallsNameServices(d) ==
    \A p \in CallsBy(d) :
        calls[p].kind = "remove" =>
            \E k \in 1..Len(composeFile.Services) :
                calls[p].name = ServiceMachineName(composeFile, k)

\* Down's service loop is over without a failed Remove
ServiceLoopOver(d) ==
    /\ inv[d].haveList
    /\ \/ inv[d].pc = "networks"
       \/ inv[d].pc = "done" /\ inv[d].err # ErrRemove

\* C6 (as claimed): Down issues a Remove call only for declared services
\* with a matching instance that is Running or Paused.
C6_RemovesOnlyLiveInstances ==
    \A d \in DownIds :
        RemoveCallsNameServices(d) /\ RemovedBy(d) \subseteq ServicesWithMachine(d, Live)

\* C6 (amended): Down issues a Remove call only for declared services with a
\* matching instance in the listing, whatever its state, and once the
\* service loop is over exactly those have been removed: a service without
\* a matching instance is skipped without a call and without an error.
C6_RemovesExactlyExistingInstances ==
    \A d \in DownIds :
        /\ RemoveCallsNameServices(d)
        /\ RemovedBy(d) \subseteq ServicesWithMachine(d, AnyState)
        /\ ServiceLoopOver(d) => RemovedBy(d) = ServicesWithMachine(d, AnyState)

\* C6 witness: Down succeeded, removed an exited instance and skipped a
\* service that has no instance
C6_Witness ==
    \E d \in DownIds :
        /\ inv[d].pc = "done" /\ inv[d].err = NoErr /\ inv[d].haveList
        /\ \E k \in RemovedBy(d) : k \in ServicesWithMachine(d, {"Exited"})
        /\ \E k \in 1..Len(composeFile.Services) :
              k \notin ServicesWithMachine(d, AnyState) /\ k \notin RemovedBy(d)

Finished == {"ok", "failed"}

\* C7: a failed run task leaves Up's result nil and every sibling task able
\* to take its next step; Up returns with every task finished.
C7_FailedRunIsIsolated ==
    \A u \in UpIds :
        (\E k \in DOMAIN inv[u].tasks : inv[u].tasks[k] = "failed") =>
            /\ inv[u].err = NoErr
            /\ \A j \in DOMAIN inv[u].tasks :
                  /\ inv[u].tasks[j] = "ready" => ENABLED TaskRun(u, j)
                  /\ inv[u].tasks[j] = "running" => ENABLED TaskReturn(u, j)
            /\ inv[u].pc = "done" =>
                  \A j \in DOMAIN inv[u].tasks : inv[u].tasks[j] \in Finished

\* C7 witness: Up returned nil with one task failed and another succeeded
C7_Witness ==
    \E u \in UpIds :
        /\ inv[u].pc = "done" /\ inv[u].err = NoErr
        /\ \E k \in DOMAIN inv[u].tasks : inv[u].tasks[k] = "failed"
        /\ \E k \in DOMAIN inv[u].tasks : inv[u].tasks[k] = "ok"
        /\ logs # {}

\* C8: Up has never returned while a task it launched is still running.
C8_ReturnsOnlyAfterEveryTask ==
    \A u \in UpIds :
        inv[u].pc = "done" =>
            \A k \in DOMAIN inv[u].tasks : inv[u].tasks[k] \in Finished

\* C8 witness: Up returned after two or more run calls, all of them finished
C8_Witness ==
    \E u \in UpIds :
        /\ inv[u].pc = "done"
        /\ Len(inv[u].tasks) >= 2
        /\ Cardinality({p \in CallsBy(u) : calls[p].kind = "run"}) = Len(inv[u].tasks)

\* service k of the compose file was resolved by u, going by the calls made:
\* a local hit, a successful pull or a successful package
ResolvedByCalls(u, k) ==
    \E p \in CallsBy(u) :
        /\ calls[p].name = ServiceMachineName(composeFile, k)
        /\ \/ calls[p].kind = "catalog-local" /\ calls[p].result = "hit"
           \/ calls[p].kind = "pull" /\ calls[p].result = "ok"
           \/ calls[p].kind = "package" /\ calls[p].result = "ok"

RunStarted(u) ==
    \/ inv[u].launched > 0
    \/ \E p \in CallsBy(u) : calls[p].kind = "run"

ResolutionError(kind) ==
    IF kind \in {"catalog-local", "catalog-remote"} THEN ErrCatalog
    ELSE IF kind = "pull" THEN ErrPull
    ELSE IF kind = "build" THEN ErrBuild
    ELSE ErrPackage

\* C9: no run task is launched before every declared service is resolved,
\* and a failed resolution makes Up return that error with no run task.
C9_RunOnlyAfterAllResolved ==
    \A u \in UpIds :
        /\ RunStarted(u) =>
              \A k \in 1..Len(composeFile.Services) : ResolvedByCalls(u, k)
        /\ \A p \in CallsBy(u) :
              (calls[p].kind \in WorkKinds \ {"run"} /\ calls[p].result = "err") =>
                  /\ inv[u].pc = "done"
                  /\ inv[u].err = ResolutionError(calls[p].kind)
                  /\ ~RunStarted(u)
        /\ (inv[u].pc = "done" /\ inv[u].err \in ResolutionErrors) => ~RunStarted(u)

\* C9 witness: the second service failed to build after the first was
\* resolved, and Up returned without a run task
C9_Witness ==
    \E u \in UpIds :
        /\ inv[u].pc = "done" /\ inv[u].err = ErrBuild
        /\ ResolvedByCalls(u, 1) /\ ~ResolvedByCalls(u, 2)
        /\ ~RunStarted(u)

NetworkKinds == {"network-list", "network-remove"}

DownError(kind) == IF kind = "remove" THEN ErrRemove ELSE ErrNetworkRemove

\* C10: a failed Remove or network removal is the last call Down makes and
\* Down returns that error; network calls come only after every matching
\* service was removed successfully.
C10_DownIsFailFast ==
    \A d \in DownIds :
        /\ \A p \in CallsBy(d) :
              (calls[p].kind \in {"remove", "network-remove"} /\ calls[p].result = "err") =>
                  /\ inv[d].pc = "done" /\ inv[d].err = DownError(calls[p].kind)
                  /\ \A q \in CallsBy(d) : q <= p
        /\ \A q \in CallsBy(d) :
              calls[q].kind \in NetworkKinds =>
                  \A k \in ServicesWithMachine(d, AnyState) :
                      \E p \in CallsBy(d) :
                          /\ p < q /\ calls[p].kind = "remove" /\ calls[p].result = "ok"
                          /\ calls[p].name = ServiceMachineName(composeFile, k)

\* C10 witness: the first of two removals failed while a declared network
\* exists; Down returned the error after that one call
C10_Witness ==
    \E d \in DownIds :
        /\ inv[d].pc = "done" /\ inv[d].err = ErrRemove
        /\ Cardinality(ServicesWithMachine(d, AnyState)) >= 2
        /\ Cardinality({p \in CallsBy(d) : calls[p].kind = "remove"}) = 1
        /\ \E k \in DOMAIN inv[d].project.Networks :
              [driver |-> inv[d].project.Networks[k].Driver,
               name |-> inv[d].project.Networks[k].Name] \in hostNetworks

InitStop ==
    /\ \/ \E n \in 0..MaxOrchServices : composeFile = OrchProject(n, OneNetwork)
       \/ composeFile = InvalidProject
    /\ project = composeFile
    /\ verr = NotValidated
    /\ nvalidate = 0
    /\ machines \in Worlds(composeFile)
    /\ hostNetworks = {}
    /\ inv = <<NewInv("stop", composeFile)>>
    /\ calls = <<>>
    /\ logs = {}

NextStop ==
    \/ \E s \in DOMAIN inv : StopValidate(s)
    \/ \E s \in DOMAIN inv : StopList(s)
    \/ \E s \in DOMAIN inv : \E k \in DOMAIN inv[s].procs : StopTaskStart(s, k)
    \/ \E s \in DOMAIN inv : \E k \in DOMAIN inv[s].procs : StopTaskReturn(s, k)

SpecStop == InitStop /\ [][NextStop]_vars

\* the projects one of the three commands is run on: valid ones, and ones
\* Validate rejects for its service, its network or a failed host detection
CommandProjects ==
    {OrchProject(n, OneNetwork) : n \in 0..MaxOrchServices}
    \cup {InvalidProject,
          OrchProject(1, OneAttachment("n1", Network("n1", "", <<>>))),
          OrchProject(1, OneAttachment("n1", Network("n1", "bridge", <<>>))),
          [OrchProject(1, OneNetwork) EXCEPT !.Services[1].Platform = <<>>]}

InitCommands ==
    /\ composeFile \in CommandProjects
    /\ project = composeFile
    /\ verr = NotValidated
    /\ nvalidate = 0
    /\ machines \in Worlds(composeFile)
    /\ hostNetworks \in HostNetworkSets
    /\ \E op \in {"up", "down", "stop"} : inv = <<NewInv(op, composeFile)>>
    /\ calls = <<>>
    /\ logs = {}

NextCommands ==
    \/ \E u \in DOMAIN inv : UpValidate(u)
    \/ \E u \in DOMAIN inv : UpList(u)
    \/ \E u \in DOMAIN inv : UpCatalogLocal(u)
    \/ \E u \in DOMAIN inv : UpCatalogRemote(u)
    \/ \E u \in DOMAIN inv : UpPull(u)
    \/ \E u \in DOMAIN inv : UpBuild(u)
    \/ \E u \in DOMAIN inv : UpPackage(u)
    \/ \E u \in DOMAIN inv : UpLaunch(u)
    \/ \E u \in DOMAIN inv : \E k \in DOMAIN inv[u].tasks : TaskRun(u, k)
    \/ \E u \in DOMAIN inv : \E k \in DOMAIN inv[u].tasks : TaskReturn(u, k)
    \/ \E u \in DOMAIN inv : UpWait(u)
    \/ \E d \in DOMAIN inv : DownValidate(d)
    \/ \E d \in DOMAIN inv : DownList(d)
    \/ \E d \in DOMAIN inv : DownRemove(d)
    \/ \E d \in DOMAIN inv : DownNextNetwork(d)
    \/ \E d \in DOMAIN inv : DownRemoveNetwork(d)
    \/ \E s \in DOMAIN inv : StopValidate(s)
    \/ \E s \in DOMAIN inv : StopList(s)
    \/ \E s \in DOMAIN inv : \E k \in DOMAIN inv[s].procs : StopTaskStart(s, k)
    \/ \E s \in DOMAIN inv : \E k \in DOMAIN inv[s].procs : StopTaskReturn(s, k)

SpecCommands == InitCommands /\ [][NextCommands]_vars

\* platform strings: every sequence of a few tokens, among them the
\* separator, supported and unsupported platforms and architectures
PlatformTokens == {"/", "qemu", "vbox", "arm64", "mips"}

PlatformStrings == SeqsUpTo(PlatformTokens, MaxPlatformTokens) \ {<<>>}

\* a one-service project whose service declares the platform string pl
PlatformProject(pl) ==
    ProjectOf(<<[OrchService(2, FALSE) EXCEPT !.Platform = pl]>>, NoAttachments)

InitPlatform ==
    /\ \E pl \in PlatformStrings : composeFile = PlatformProject(pl)
    /\ project = composeFile
    /\ verr = NotValidated
    /\ nvalidate = 0
    /\ machines = {[name |-> <<"other">>, state |-> "Running"]}
    /\ hostNetworks = {}
    /\ inv = <<NewInv("up", composeFile)>>
    /\ calls = <<>>
    /\ logs = {}

\* `kraft compose up` on these projects: ensureServiceIsPackaged, and later
\* runService, extract platform and architecture from the string
SpecPlatform == InitPlatform /\ [][NextUp]_vars

\* the runs of Down that follow a run which completed successfully
AfterSuccessfulDown == {d \in DownIds : d > 1 /\ inv[d - 1].pc = "done" /\ inv[d - 1].err = NoErr}

RemovalKinds == {"remove", "network-remove"}

\* C11: a Down that follows a successful Down on the same project makes no
\* Remove and no network removal call, and it returns success (unless one of
\* its own listing calls fails).
C11_SecondDownRemovesNothing ==
    \A d \in AfterSuccessfulDown :
        /\ \A p \in CallsBy(d) : calls[p].kind \notin RemovalKinds
        /\ inv[d].pc = "done" =>
              \/ inv[d].err = NoErr
              \/ /\ inv[d].err \in {ErrList, ErrNetworkList}
                 /\ \E p \in CallsBy(d) : calls[p].result = "err"

\* C11 witness: the first Down removed an instance and a network, the second
\* one has returned success
C11_Witness ==
    \E d \in AfterSuccessfulDown :
        /\ inv[d].pc = "done" /\ inv[d].err = NoErr /\ inv[d].haveList
        /\ \E p \in CallsBy(d - 1) : calls[p].kind = "remove"
        /\ \E p \in CallsBy(d - 1) : calls[p].kind = "network-remove"
        /\ \E p \in CallsBy(d) : calls[p].kind = "network-list"

StopIds == {s \in DOMAIN inv : inv[s].op = "stop"}

StopCalls(s) == {p \in CallsBy(s) : calls[p].kind = "stop"}

\* the labels of the stop tasks s has scheduled
Scheduled(s) == {inv[s].procs[k].label : k \in DOMAIN inv[s].procs}

\* C12: once Stop has its listing, it has scheduled one stop task for each
\* declared service with a Running or Paused instance of its name and none
\* for any other service; with no task scheduled it has returned success
\* without a stop call.
C12_StopSchedulesExactlyLiveServices ==
    \A s \in StopIds :
        inv[s].haveList =>
            /\ Scheduled(s) = {ServiceMachineName(composeFile, k) :
                                  k \in ServicesWithMachine(s, Live)}
            /\ Len(inv[s].procs) = Cardinality(ServicesWithMachine(s, Live))
            /\ Cardinality(StopCalls(s)) <= Len(inv[s].procs)
            /\ ServicesWithMachine(s, Live) = {} =>
                  inv[s].pc = "done" /\ inv[s].err = NoErr /\ StopCalls(s) = {}

\* C12 witness: of two services one is live and gets a task, the other has
\* an exited instance and gets none
C12_Witness ==
    \E s \in StopIds :
        /\ inv[s].haveList /\ Len(inv[s].procs) = 1
        /\ ServicesWithMachine(s, {"Exited"}) # {}
        /\ inv[s].pc = "done" /\ inv[s].err = NoErr

InFlight(s) == {k \in DOMAIN inv[s].procs : inv[s].procs[k].status = "running"}

\* C13: at most one stop call is in flight, the tasks run in order, and a
\* failed stop is the last call of Stop, which returns the error with every
\* later task not executed.
C13_StopIsSequentialAndFailFast ==
    \A s \in StopIds :
        /\ Cardinality(InFlight(s)) <= 1
        /\ \A k \in DOMAIN inv[s].procs :
              inv[s].procs[k].status # "pending" =>
                  \A j \in 1..(k - 1) : inv[s].procs[j].status = "ok"
        /\ \A k \in DOMAIN inv[s].procs :
              inv[s].procs[k].status = "failed" =>
                  /\ inv[s].pc = "done" /\ inv[s].err = ErrStop
                  /\ Cardinality(StopCalls(s)) = k
                  /\ \A j \in (k + 1)..Len(inv[s].procs) :
                        inv[s].procs[j].status = "pending"

\* C13 witness: the first of two stop tasks failed, the second was never run
C13_Witness ==
    \E s \in StopIds :
        /\ Len(inv[s].procs) = 2
        /\ inv[s].procs[1].status = "failed" /\ inv[s].procs[2].status = "pending"
        /\ inv[s].pc = "done" /\ inv[s].err = ErrStop

\* Validate runs again on a project object it has already accepted
ValidatedAgain == Validated /\ nvalidate' = nvalidate + 1

\* the addresses of the attachments of service i
Addresses(p, i) ==
    [k \in DOMAIN p.Services[i].Networks |-> p.Services[i].Networks[k].Ipv4Address]

\* C14 (as claimed): a second Validate on a project that passed validation
\* leaves every service's name, image and assigned addresses as the first
\* call left them.
C14_SecondValidateKeepsNamesImagesAddresses ==
    [][ValidatedAgain =>
          \A i \in 1..Len(project.Services) :
              /\ project'.Services[i].Name = project.Services[i].Name
              /\ project'.Services[i].Image = project.Services[i].Image
              /\ Addresses(project', i) = Addresses(project, i)]_vars

\* What does hold of a second Validate (supporting C14's diagnosis): images
\* and addresses are kept; only the names are prefixed once more.
SecondValidateKeepsImagesAndAddresses ==
    [][ValidatedAgain =>
          \A i \in 1..Len(project.Services) :
              /\ project'.Services[i].Image = project.Services[i].Image
              /\ Addresses(project', i) = Addresses(project, i)
              /\ project'.Services[i].Name
                    = PrefixedName(project.Name, project.Services[i].Name)]_vars

\* "<project>-<service>" for service i as the compose file declares it
FilePrefixedName(i) == PrefixedName(DefaultedName(composeFile), composeFile.Services[i].Name)

\* C15 (as claimed): after a successful Validate every service's name and
\* every service's image is "<project>-<service>", also where the compose
\* file declares an image.
C15_NameAndImageArePrefixed ==
    (Validated /\ nvalidate = 1) =>
        \A i \in 1..Len(project.Services) :
            /\ project.Services[i].Name = FilePrefixedName(i)
            /\ project.Services[i].Image = FilePrefixedName(i)

\* C15 (amended): when Validate returns success, every service's name is
\* "<project>-<name before the call>"; its image is that same string if the
\* service had no image before the call, and otherwise the image is kept.
C15_NamePrefixedImageOnlyWhenMissing ==
    [][(nvalidate' = nvalidate + 1 /\ verr' = NoErr) =>
          \A i \in 1..Len(project.Services) :
              /\ project'.Services[i].Name
                    = PrefixedName(project'.Name, project.Services[i].Name)
              /\ project'.Services[i].Image
                    = IF project.Services[i].Image = <<>>
                      THEN PrefixedName(project'.Name, project.Services[i].Name)
                      ELSE project.Services[i].Image]_vars

\* C15 witness: a validated project with a synthesized image and a declared
\* image that was kept, its name taken from the working directory
C15_Witness ==
    /\ Validated /\ nvalidate = 1 /\ composeFile.Name = <<>>
    /\ \E i \in 1..Len(project.Services) :
          /\ composeFile.Services[i].Image = <<>>
          /\ project.Services[i].Image = FilePrefixedName(i)
    /\ \E i \in 1..Len(project.Services) :
          /\ composeFile.Services[i].Image # <<>>
          /\ project.Services[i].Image = composeFile.Services[i].Image
          /\ project.Services[i].Name = FilePrefixedName(i)

\* the folded IPAM configuration of network k of the compose file has no gateway
GatewayOmitted(k) == FoldIpam(composeFile.Networks[k].Config).Gateway.form = "empty"

\* the address part of network k's subnet as the compose file writes it
FileSubnetAddr(k) == FoldIpam(composeFile.Networks[k].Config).Subnet.ip

\* C16 (as claimed): where the folded IPAM configuration has no gateway, the
\* gateway Validate records is the subnet's base address, also for a subnet
\* written with host bits set.
C16_OmittedGatewayIsSubnetBase ==
    Validated =>
        \A k \in DOMAIN project.Networks :
            GatewayOmitted(k) =>
                project.Networks[k].Config[1].Gateway = Dotted(FileBase(k))

\* C16 (amended): where the folded IPAM configuration has no gateway, the
\* gateway Validate records is the address of the subnet CIDR as written
\* (the base address only if no host bits are set); no service of the
\* network gets that address or the base address.
C16_OmittedGatewayIsSubnetAddressAsWritten ==
    Validated =>
        \A k \in DOMAIN project.Networks :
            GatewayOmitted(k) =>
                /\ project.Networks[k].Config[1].Gateway = Dotted(FileSubnetAddr(k))
                /\ \A i \in AttachedTo(project, k) :
                      ServiceAddr(i, k) \notin {FileSubnetAddr(k), FileBase(k)}

\* C16 witness: a subnet written with host bits set, no gateway, and a
\* service that was given an address
C16_Witness ==
    /\ Validated
    /\ \E k \in DOMAIN project.Networks :
          /\ GatewayOmitted(k)
          /\ FileSubnetAddr(k) # FileBase(k)
          /\ project.Networks[k].Config[1].Gateway = Dotted(FileSubnetAddr(k))
          /\ AttachedTo(project, k) # {}

\* the last block of a network's IPAM blocks that has a subnet (a gateway),
\* 0 if there is none
LastWithSubnet(config) ==
    LET idx == {i \in DOMAIN config : config[i].Subnet # EmptyCidr}
    IN  IF idx = {} THEN 0 ELSE CHOOSE i \in idx : \A j \in idx : j <= i

LastWithGateway(config) ==
    LET idx == {i \in DOMAIN config : config[i].Gateway # EmptyAddr}
    IN  IF idx = {} THEN 0 ELSE CHOOSE i \in idx : \A j \in idx : j <= i

\* C17: for every sequence of IPAM blocks, the subnet Validate goes by is the
\* last non-empty subnet of the sequence and the gateway the last non-empty
\* gateway, each whatever block the other comes from; with no subnet in any
\* block Validate fails with the no-subnet error.
C17_FoldTakesLastSubnetAndLastGateway ==
    nvalidate = 1 =>
        \A k \in DOMAIN composeFile.Networks \ {"default"} :
            LET config == composeFile.Networks[k].Config
                ls == LastWithSubnet(config)
                lg == LastWithGateway(config)
            IN  (EffectiveDriver(composeFile.Networks[k]) # "" /\ Len(config) >= 1) =>
                    /\ (ls = 0 /\ Cardinality(DOMAIN composeFile.Networks) = 1)
                          => verr = ErrNoSubnet
                    /\ verr = NoErr =>
                          /\ ls # 0
                          /\ project.Networks[k].Config[1].Subnet = config[ls].Subnet
                          /\ lg # 0 =>
                                project.Networks[k].Config[1].Gateway = config[lg].Gateway

\* C17 witness: the subnet comes from an earlier block than the gateway, and
\* a later block without a subnet did not erase it
C17_Witness ==
    /\ Validated /\ nvalidate = 1
    /\ \E k \in DOMAIN project.Networks :
          LET config == composeFile.Networks[k].Config
          IN  /\ Len(config) >= 2
              /\ LastWithSubnet(config) = 1 /\ LastWithGateway(config) = 2
              /\ project.Networks[k].Config[1]
                    = Block(config[1].Subnet, config[2].Gateway)

\* the compose file without its "default" network and without the
\* attachments to it
WithoutDefault(p) ==
    [p EXCEPT !.Networks = [k \in DOMAIN p.Networks \ {"default"} |-> p.Networks[k]],
              !.Services = [i \in DOMAIN p.Services |->
                               [p.Services[i] EXCEPT !.Networks =
                                   [k \in DOMAIN @ \ {"default"} |-> @[k]]]]]

\* every attachment to a network other than "default" names a declared network
OtherAttachmentsDeclared(p) ==
    \A i \in 1..Len(p.Services) :
        DOMAIN p.Services[i].Networks \ {"default"} \subseteq DOMAIN p.Networks

\* the errors Validate can return on project p
ValidateErrors(p) ==
    {out.err : out \in UNION {ValidateOutcomes(p, det) : det \in Detections}}

\* C18: whatever a network named "default" looks like, Validate returns what
\* it returns on the same project without that network and without the
\* attachments to it; a validated project has no network "default" and no
\* attachment to it; an attachment to "default" is never reported as an
\* unknown network.
C18_DefaultNetworkIsDiscarded ==
    /\ nvalidate = 1 => verr \in ValidateErrors(WithoutDefault(composeFile))
    /\ Validated =>
          /\ "default" \notin DOMAIN project.Networks
          /\ \A i \in 1..Len(project.Services) :
                "default" \notin DOMAIN project.Services[i].Networks
          /\ nvalidate = 1 =>
                /\ DOMAIN project.Networks = DOMAIN composeFile.Networks \ {"default"}
                /\ \A i \in 1..Len(project.Services) :
                      DOMAIN project.Services[i].Networks
                         = DOMAIN composeFile.Services[i].Networks \ {"default"}
    /\ (nvalidate = 1 /\ OtherAttachmentsDeclared(composeFile))
          => verr # ErrUnknownNetwork

\* C18 witness: a "default" network without driver and IPAM blocks, a
\* service attached to it and to another network; Validate succeeded
C18_Witness ==
    /\ Validated /\ nvalidate = 1
    /\ "default" \in DOMAIN composeFile.Networks
    /\ EffectiveDriver(composeFile.Networks["default"]) = ""
    /\ \E i \in 1..Len(composeFile.Services) :
          /\ {"default", "n1"} \subseteq DOMAIN composeFile.Services[i].Networks
          /\ DOMAIN project.Services[i].Networks = {"n1"}

ResolutionKinds == {"catalog-local", "catalog-remote", "pull", "build", "package"}

\* the resolution calls u made for service k, in order, as <<kind, result>>
RECURSIVE ResolutionTrace(_, _, _)
ResolutionTrace(u, k, p) ==
    IF p = 0 THEN <<>>
    ELSE IF /\ calls[p].inv = u /\ calls[p].kind \in ResolutionKinds
            /\ calls[p].name = ServiceMachineName(composeFile, k)
         THEN Append(ResolutionTrace(u, k, p - 1), <<calls[p].kind, calls[p].result>>)
         ELSE ResolutionTrace(u, k, p - 1)

\* the complete resolutions the decision order allows
LocalHit == <<<<"catalog-local", "hit">>>>
RemoteHit(pulled) ==
    <<<<"catalog-local", "miss">>, <<"catalog-remote", "hit">>, <<"pull", pulled>>>>
Built(packaged) ==
    <<<<"catalog-local", "miss">>, <<"catalog-remote", "miss">>,
      <<"build", "ok">>, <<"package", packaged>>>>
BuildFailed ==
    <<<<"catalog-local", "miss">>, <<"catalog-remote", "miss">>, <<"build", "err">>>>
LookupFailed(n) ==
    IF n = 1 THEN <<<<"catalog-local", "err">>>>
    ELSE <<<<"catalog-local", "miss">>, <<"catalog-remote", "err">>>>

AllowedResolutions ==
    {LocalHit, BuildFailed} \cup {RemoteHit(r) : r \in {"ok", "err"}}
    \cup {Built(r) : r \in {"ok", "err"}} \cup {LookupFailed(n) : n \in {1, 2}}

IsPrefix(t, q) == Len(t) <= Len(q) /\ SubSeq(q, 1, Len(t)) = t

\* C19: the calls Up makes to resolve a service follow the decision order: a
\* local hit ends it; a local miss is followed by the remote lookup, a
\* remote hit by exactly one pull and nothing else; Build comes only after
\* a miss at both, Package only after a successful Build.
C19_ResolutionFollowsDecisionOrder ==
    \A u \in UpIds :
        \A k \in 1..Len(composeFile.Services) :
            /\ \E q \in AllowedResolutions : IsPrefix(ResolutionTrace(u, k, Len(calls)), q)
            /\ (k < inv[u].i \/ inv[u].pc \in {"run", "done"}) =>
                  \/ ResolutionTrace(u, k, Len(calls)) \in AllowedResolutions
                  \/ inv[u].pc = "done" /\ inv[u].err # NoErr

\* C19 witness: three kinds of resolution in one Up: a remote hit that was
\* pulled for the first service, build and package for the second
C19_Witness ==
    \E u \in UpIds :
        /\ inv[u].pc = "run" /\ Len(composeFile.Services) >= 2
        /\ ResolutionTrace(u, 1, Len(calls)) = RemoteHit("ok")
        /\ ResolutionTrace(u, 2, Len(calls)) = Built("ok")

\* C20 (as claimed): in a project that passed Validate, a service that
\* reaches the build step has a build context; Up never returns the
\* no-build-context error.
C20_BuildContextPresentAtBuildStep ==
    \A u \in UpIds :
        /\ (inv[u].pc = "resolve" /\ inv[u].step = "build") => CurrentService(u).Build
        /\ ~(inv[u].pc = "done" /\ inv[u].err = ErrNoBuildContext)

\* C20 (amended): a service that reaches the build step has a build context
\* only if it declares one; for a service that declares only an image, Up
\* returns the no-build-context error without a Build or Package call for
\* it and without a run task; Build is called only for services that
\* declare a build context.
C20_NoBuildContextIsReportedWithoutBuilding ==
    \A u \in UpIds :
        /\ \A p \in CallsBy(u) :
              calls[p].kind \in {"build", "package"} =>
                  \E k \in 1..Len(composeFile.Services) :
                      /\ calls[p].name = ServiceMachineName(composeFile, k)
                      /\ composeFile.Services[k].Build
        /\ (inv[u].pc = "done" /\ inv[u].err = ErrNoBuildContext) =>
              /\ ~RunStarted(u)
              /\ \E k \in 1..Len(composeFile.Services) :
                    /\ ~composeFile.Services[k].Build
                    /\ composeFile.Services[k].Image # <<>>
                    /\ ResolutionTrace(u, k, Len(calls))
                          = <<<<"catalog-local", "miss">>, <<"catalog-remote", "miss">>>>

\* C20 witness: the image-only service missed both catalogs and Up returned
\* the no-build-context error
C20_Witness ==
    \E u \in UpIds :
        /\ inv[u].pc = "done" /\ inv[u].err = ErrNoBuildContext
        /\ ~RunStarted(u)
        /\ \E p \in CallsBy(u) : calls[p].kind = "catalog-remote" /\ calls[p].result = "miss"

\* the networks of the compose file that Validate checks
FileNetworks == DOMAIN composeFile.Networks \ {"default"}

\* the services that pin an address on network k in the compose file
PinsOn(k) == {i \in AttachedTo(composeFile, k) : PinnedInFile(i, k)}

FilePin(i, k) == ParseIP(composeFile.Services[i].Networks[k].Ipv4Address)

\* the compose file has only valid networks, every attachment names one of
\* them and every pinned address parses
PinsWellFormed ==
    /\ \A k \in FileNetworks : NetworkCheck(composeFile.Networks[k]).err = NoErr
    /\ \A i \in 1..Len(composeFile.Services) :
          \A k \in DOMAIN composeFile.Services[i].Networks \ {"default"} :
             k \in FileNetworks /\ (PinnedInFile(i, k) => FilePin(i, k) # NilIP)

\* two services pin the same address on network k
SharedPin(k) ==
    \E i \in PinsOn(k), j \in PinsOn(k) : i # j /\ FilePin(i, k) = FilePin(j, k)

\* a service pins the gateway (the base address) of network k
PinOnGateway(k) == \E i \in PinsOn(k) : FilePin(i, k) = ParseIP(FileGateway(k))
PinOnBase(k) == \E i \in PinsOn(k) : FilePin(i, k) = FileBase(k)

\* C21 (as claimed): Validate fails with the address-in-use error if, on
\* some network, two services pin the same address or a service pins the
\* gateway or the base address; without such a conflict within one network
\* (whatever is pinned on other networks) it does not fail with that error.
C21_PinConflictsAreDetectedPerNetwork ==
    (nvalidate = 1 /\ PinsWellFormed) =>
        (verr = ErrAddressInUse <=>
            \E k \in FileNetworks : SharedPin(k) \/ PinOnGateway(k) \/ PinOnBase(k))

\* What does hold (supporting C21's diagnosis): the same, as long as a pin on
\* the gateway counts only when the gateway is stored in dotted spelling.
PinConflictsDetectedUnlessGatewayRespelled ==
    (nvalidate = 1 /\ PinsWellFormed) =>
        (verr = ErrAddressInUse <=>
            \E k \in FileNetworks :
                \/ SharedPin(k) \/ PinOnBase(k)
                \/ PinOnGateway(k) /\ FileGateway(k).form = "dotted")

\* the errors Validate returns
ValidationErrors ==
    {ErrNoImageNorBuild, ErrDetect, ErrNoDriver, ErrNoIPAM, ErrNoSubnet,
     ErrInvalidSubnet, ErrParseSubnet, ErrParseGateway, ErrGatewayOutside,
     ErrUnknownNetwork, ErrInvalidAddress, ErrAddressInUse, ErrExhausted}

\* the projects a successful Validate can leave for the compose file
ValidProjects ==
    {out.project : out \in {o \in UNION {ValidateOutcomes(composeFile, det) :
                                             det \in Detections} : o.err = NoErr}}

\* C22: a command (up, down or stop) whose Validate fails has returned the
\* validation error without a single call to the machine controller, the
\* catalog, pull, build, package, run, stop, remove or the network
\* controller; a command that has made such a call holds a validated project.
C22_ValidationPrecedesInfrastructure ==
    \A u \in DOMAIN inv :
        /\ (inv[u].pc # "start" /\ NoErr \notin ValidateErrors(composeFile)) =>
              /\ inv[u].pc = "done"
              /\ inv[u].err \in ValidateErrors(composeFile)
        /\ (inv[u].pc = "done" /\ inv[u].err \in ValidationErrors) => CallsBy(u) = {}
        /\ CallsBy(u) # {} => inv[u].project \in ValidProjects

\* C22 witness: a stop on a project whose network has no driver returned
\* that error while a declared service is running
C22_Witness ==
    \E s \in StopIds :
        /\ inv[s].pc = "done" /\ inv[s].err = ErrNoDriver
        /\ calls = <<>>
        /\ \E m \in machines :
              m.name = ServiceMachineName(composeFile, 1) /\ m.state = "Running"

Architectures == {"x86_64", "amd64", "arm32", "arm64"}

\* the platform string is "<platform>/<arch>": two non-empty tokens around
\* one '/', a supported platform and a known architecture
WellFormedPlatform(pl) ==
    /\ Len(pl) = 3 /\ pl[2] = "/"
    /\ pl[1] \in SupportedPlatforms /\ pl[3] \in Architectures

PlatformErrors == {ErrInvalidPlatform, ErrUnsupportedPlatform, ErrUnsupportedArch}

\* C23: Up's extraction of platform and architecture succeeds exactly for
\* a string of two non-empty '/'-separated tokens naming a supported
\* platform and one of x86_64, amd64, arm32, arm64, and then yields those
\* two tokens; for every other string Up returns a platform error before
\* any catalog, build or run call.
C23_PlatformExtraction ==
    \A u \in UpIds :
        \A k \in 1..Len(inv[u].project.Services) :
            LET service == inv[u].project.Services[k]
            IN  /\ PlatArch(service).err = NoErr <=> WellFormedPlatform(service.Platform)
                /\ WellFormedPlatform(service.Platform) =>
                      /\ PlatArch(service).plat = <<service.Platform[1]>>
                      /\ PlatArch(service).arch = <<service.Platform[3]>>
                      /\ inv[u].err \notin PlatformErrors
                /\ ~WellFormedPlatform(service.Platform) =>
                      /\ NoWorkCalls(u) /\ inv[u].pc # "run"
                      /\ (inv[u].pc = "done" /\ inv[u].haveList) =>
                            inv[u].err \in PlatformErrors

\* C23 witness: a string with a second '/' was rejected as an unsupported
\* architecture
C23_Witness ==
    \E u \in UpIds :
        /\ inv[u].pc = "done" /\ inv[u].err = ErrUnsupportedArch
        /\ inv[u].project.Services[1].Platform = <<"qemu", "/", "arm64", "/">>

\* the instance names of the stop calls s has issued, in order
RECURSIVE StopTrace(_, _)
StopTrace(s, p) ==
    IF p = 0 THEN <<>>
    ELSE IF calls[p].inv = s /\ calls[p].kind = "stop"
         THEN Append(StopTrace(s, p - 1), calls[p].name)
         ELSE StopTrace(s, p - 1)

StopTaskStopsOwnOrListedMachine ==
    \A s \in StopIds :
        LET trace == StopTrace(s, Len(calls))
        IN  /\ Len(trace) <= Len(inv[s].procs)
            /\ \A k \in 1..Len(trace) :
                  \/ trace[k] = inv[s].procs[k].label
                  \/ \E m \in inv[s].listed : trace[k] = m.name

\* the positions of the Run calls u made for service k
RunCalls(u, k) ==
    {p \in CallsBy(u) : calls[p].kind = "run"
                          /\ calls[p].name = ServiceMachineName(composeFile, k)}

\* C25: Up launches at most one task per declared service; a task that has
\* entered Run has invoked it for the service at its own index and for no
\* other, no service has Run invoked twice, and in an Up that has returned
\* from the run phase every declared service has had Run invoked exactly
\* once.
C25_OneRunTaskPerService ==
    \A u \in UpIds :
        /\ inv[u].launched <= Len(composeFile.Services)
        /\ Len(inv[u].tasks) \in {0, Len(composeFile.Services)}
        /\ \A k \in 1..Len(composeFile.Services) :
              /\ Cardinality(RunCalls(u, k)) <= 1
              /\ (k \in DOMAIN inv[u].tasks /\ inv[u].tasks[k] \in {"running", "ok"})
                    => Cardinality(RunCalls(u, k)) = 1
              /\ (k \in DOMAIN inv[u].tasks /\ inv[u].tasks[k] \in {"unlaunched", "ready"})
                    => RunCalls(u, k) = {}
              /\ (inv[u].pc = "done" /\ inv[u].err = NoErr /\ inv[u].haveList)
                    => Cardinality(RunCalls(u, k)) = 1
        /\ Cardinality({p \in CallsBy(u) : calls[p].kind = "run"}) <= inv[u].launched

\* C25 witness: the second task entered Run before the first, each for its
\* own service, and Up has returned
C25_Witness ==
    \E u \in UpIds :
        /\ inv[u].pc = "done" /\ inv[u].err = NoErr /\ Len(inv[u].tasks) = 2
        /\ \E p \in RunCalls(u, 2), q \in RunCalls(u, 1) : p < q

\* the declared networks of Down d (as validated), by key
DeclaredNetworks(d) == DOMAIN inv[d].project.Networks

NetworkRemovals(d, k) ==
    {p \in CallsBy(d) : calls[p].kind = "network-remove"
                          /\ calls[p].name = inv[d].project.Networks[k].Name}

DriverListings(d, driver) ==
    {p \in CallsBy(d) : calls[p].kind = "network-list" /\ calls[p].name = <<driver>>}

Unregistered(d) ==
    {k \in DeclaredNetworks(d) : inv[d].project.Networks[k].Driver \notin Strategies}

\* C26: Down attempts a network removal only for a declared network whose
\* name is in the listing of its driver's networks, and once per network;
\* it lists the networks of a driver at most once; with a declared network
\* whose driver has no registered strategy it never returns success once
\* the service loop is over, and it returns the unsupported-driver error
\* unless a call on another network failed before.
C26_NetworkPhaseOfDown ==
    \A d \in DownIds :
        /\ \A p \in CallsBy(d) :
              calls[p].kind = "network-remove" =>
                  \E k \in DeclaredNetworks(d) :
                      LET network == inv[d].project.Networks[k]
                      IN  /\ calls[p].name = network.Name
                          /\ network.Driver \in DOMAIN inv[d].cache
                          /\ network.Name \in inv[d].cache[network.Driver]
                          /\ Cardinality(NetworkRemovals(d, k)) = 1
        /\ \A driver \in {"bridge", "macvlan"} : Cardinality(DriverListings(d, driver)) <= 1
        /\ (inv[d].pc = "done" /\ ServiceLoopOver(d) /\ Unregistered(d) # {}) =>
              /\ inv[d].err \in {ErrUnsupportedDriver, ErrNetworkList, ErrNetworkRemove}
              /\ (\A p \in CallsBy(d) : calls[p].result # "err")
                    => inv[d].err = ErrUnsupportedDriver

\* C26 witness: two declared networks share a driver and one of them
\* exists; Down listed the driver's networks once and removed that one
C26_Witness ==
    \E d \in DownIds :
        /\ inv[d].pc = "done" /\ inv[d].err = NoErr
        /\ Cardinality(DeclaredNetworks(d)) = 2
        /\ Cardinality(DriverListings(d, "bridge")) = 1
        /\ Cardinality({p \in CallsBy(d) : calls[p].kind = "network-remove"}) = 1

(***************************************************************************)
(* Two `kraft compose up` processes on the same compose file, running at   *)
(* the same time against the same machine control plane.                   *)
(***************************************************************************)
\* one service with an image reference and a build context
TwoUpsProject == ProjectOf(<<OrchService(3, FALSE)>>, NoAttachments)

InitTwoUps ==
    /\ composeFile = TwoUpsProject
    /\ project = composeFile
    /\ verr = NotValidated
    /\ nvalidate = 0
    /\ machines \in Worlds(composeFile)
    /\ hostNetworks = {}
    /\ inv = <<NewInv("up", composeFile), NewInv("up", composeFile)>>
    /\ calls = <<>>
    /\ logs = {}

SpecTwoUps == InitTwoUps /\ [][NextUp]_vars

\* a machine of that name is running or paused
HasLiveMachine(name) == \E m \in machines : m.name = name /\ m.state \in Live

\* the step appends a Run call
RunInvoked == Len(calls') = Len(calls) + 1 /\ calls'[Len(calls')].kind = "run"

\* C27: no step invokes Run for a service name for which a Running or
\* Paused machine exists at that moment, two concurrent Ups included.
C27_NoDoubleStart ==
    [][RunInvoked => ~HasLiveMachine(calls'[Len(calls')].name)]_vars

\* the case of C27 happens: both Ups listed the machines before either
\* started a service, and then both invoked Run for the same service
C27_BothUpsRunTheSameService ==
    \E p, q \in DOMAIN calls :
        /\ calls[p].kind = "run" /\ calls[q].kind = "run"
        /\ calls[p].inv # calls[q].inv
        /\ calls[p].name = calls[q].name

(***************************************************************************)
(* `kraft compose up` where every step that is possible is eventually     *)
(* taken: the command's own goroutines are scheduled and every external   *)
(* call (validation, list, catalog, pull, build, package, run) returns.   *)
(***************************************************************************)
\* weaker than fairness of each action by itself: a step of the command
\* happens as long as one is possible
UpFairness == WF_vars(NextUp)

\* the projects of this specification declare no network
InitUpFair ==
    /\ \E n \in 0..MaxOrchServices : composeFile = OrchProject(n, NoAttachments)
    /\ project = composeFile
    /\ verr = NotValidated
    /\ nvalidate = 0
    /\ machines \in Worlds(composeFile)
    /\ hostNetworks = {}
    /\ inv = <<NewInv("up", composeFile)>>
    /\ calls = <<>>
    /\ logs = {}

SpecUpFair == InitUpFair /\ [][NextUp]_vars /\ UpFairness

UpReturned == \A u \in UpIds : inv[u].pc = "done"

\* a Run call of Up u has started and not returned
RunPending(u) == \E k \in DOMAIN inv[u].tasks : inv[u].tasks[k] = "running"

\* C28: when every external call returns, Up eventually returns; and Up
\* does not return while the Run call of even one service has not returned,
\* whatever the other tasks did.
C28_UpTerminatesExactlyWhenItsCallsDo ==
    /\ <>UpReturned
    /\ [][\A u \in UpIds : RunPending(u) => inv'[u].pc # "done"]_vars
    /\ [](\A u \in UpIds :
            (inv[u].pc = "done" /\ inv[u].launched > 0) =>
                /\ inv[u].launched = Len(inv[u].project.Services)
                /\ \A k \in DOMAIN inv[u].tasks : inv[u].tasks[k] \in Finished)

\* C28 witness: one task has finished and Up is still waiting for the Run
\* call of the other service
C28_Witness ==
    \E u \in UpIds :
        /\ inv[u].pc = "run" /\ inv[u].launched = 2
        /\ inv[u].tasks[1] \in Finished /\ inv[u].tasks[2] = "running"

====
